---- MODULE Spec2Model ----
(***************************************************************************)
(* CricBazaar auction planner: the auction log kept by the dashboard       *)
(* (src/app.py), the player catalog (src/players.py) and the squad         *)
(* optimizer / bid recommender / price predictor (src/optimizer.py).       *)
(*                                                                         *)
(* Quality values ("overall", marginal value, desire) are real numbers     *)
(* with one decimal in the code; here they are integers counting tenths,   *)
(* so 7.5 is 75.  Money is an integer number of currency units.            *)
(***************************************************************************)
EXTENDS Integers, Sequences, FiniteSets, TLC

VARIABLES
    auction_log,       \* st.session_state.auction_log: insertion-ordered dict,
                       \* a sequence of [pid, team, price]
    player_data,       \* st.session_state.player_data: sequence of player records
    unsold_players,    \* engine input: the pool (set of player records)
    my_squad,          \* engine input: the roster (set of player records)
    budget_remaining,  \* engine input
    slots_left,        \* engine input
    player,            \* engine input: the candidate on the block
    all_teams_data,    \* engine input: team name -> [squad, budget_left, slots_left]
    call,              \* the engine function called ("none": the dashboard alone)
    solver,            \* what the library solver does when called: "optimal"
                       \* (its contract), "failure" (success is False) or
                       \* "exception" (it raises)
    pc,                \* "idle" (no call), "called", "returned" or "raised"
    result             \* what the call returned, or the exception it raised

vars == <<auction_log, player_data, unsold_players, my_squad, budget_remaining,
          slots_left, player, all_teams_data, call, solver, pc, result>>

engine_vars == <<unsold_players, my_squad, budget_remaining, slots_left, player,
                 all_teams_data, call, solver, pc, result>>

engine_inputs == <<unsold_players, my_squad, budget_remaining, slots_left, player,
                   all_teams_data, call, solver>>

\* ---------------------------------------------------------------------
\* Small arithmetic helpers
\* ---------------------------------------------------------------------
Max(a, b) == IF a >= b THEN a ELSE b

Min(a, b) == IF a <= b THEN a ELSE b

RECURSIVE SumOver(_, _)
\* sum(f(x) for x in S) for a finite set S; f is a function defined on S
SumOver(S, f) ==
    IF S = {} THEN 0
    ELSE LET x == CHOOSE y \in S : TRUE IN f[x] + SumOver(S \ {x}, f)

Range(s) == {s[i] : i \in 1..Len(s)}

\* ---------------------------------------------------------------------
\* src/players.py: constants
\* ---------------------------------------------------------------------
BUDGET_PER_TEAM == 100

BASE_PRICE == 5

BID_INCREMENT == 1

SQUAD_SIZE == 11

AUCTION_SLOTS == 9

TEAMS == <<"Abhijeet", "Saurav", "Vishal", "Pravakar">>

\* ---------------------------------------------------------------------
\* src/players.py: the catalog.  "None" stands for an absent key.
\* ---------------------------------------------------------------------
\* the "name" keys, by id
NAMES ==
  <<"Abhishek R", "Nitin", "Kohli", "Bramesh", "Vivek Sharma", "Alok",
    "Yadu", "Aravinth", "Mehul", "Ashish P", "Vikash", "Sailendra",
    "Vishwash", "Rajeev Kumar", "Amit", "Abhinav", "Atul", "Dillip",
    "Lamby", "Ashish Anand", "Aniket Bhat", "Harish", "Ankit", "Sanjeev",
    "Runit", "Prashant", "Dharmendra", "Abhay", "Aman", "Prakhar",
    "Abhi Agarwal", "Rahul", "Samit", "Kawal", "Saumil", "Yug", "Abhijeet",
    "Saurav", "Vishal", "Pravakar", "Vivek C", "Shubham", "Aniket (VC)",
    "Padam">>

NameOf(i) == IF i \in 1..Len(NAMES) THEN NAMES[i] ELSE "None"

AP(i, bat, bowl, field) ==
    [id |-> i, name |-> NameOf(i),
     batting |-> bat, bowling |-> bowl, fielding |-> field,
     tag |-> "None", team |-> "None", forced_role |-> "None"]

PA(i, bat, bowl, field, tg, tm, fr) ==
    [id |-> i, name |-> NameOf(i),
     batting |-> bat, bowling |-> bowl, fielding |-> field,
     tag |-> tg, team |-> tm, forced_role |-> fr]

AUCTION_PLAYERS ==
 <<AP(1, 7, 4, 7), AP(2, 4, 0, 4), AP(3, 9, 0, 10), AP(4, 4, 10, 7),
   AP(5, 7, 0, 5), AP(6, 5, 5, 5), AP(7, 9, 0, 7), AP(8, 0, 9, 0),
   AP(9, 5, 7, 2), AP(10, 2, 0, 6), AP(11, 5, 5, 5), AP(12, 7, 4, 8),
   AP(13, 8, 4, 6), AP(14, 4, 4, 4), AP(15, 4, 4, 4), AP(16, 4, 4, 4),
   AP(17, 7, 9, 9), AP(18, 7, 0, 4), AP(19, 2, 8, 5), AP(20, 5, 0, 7),
   AP(21, 7, 7, 7), AP(22, 5, 10, 5), AP(23, 7, 0, 5), AP(24, 2, 6, 5),
   AP(25, 4, 4, 4), AP(26, 5, 5, 5), AP(27, 5, 0, 5), AP(28, 9, 9, 9),
   AP(29, 5, 5, 5), AP(30, 5, 7, 5), AP(31, 4, 0, 0), AP(32, 4, 7, 4),
   AP(33, 5, 0, 5), AP(34, 7, 2, 2), AP(35, 0, 7, 0), AP(36, 2, 5, 2)>>

CAPTAINS ==
 <<PA(37, 7, 6, 9, "Captain", "Abhijeet", "All-rounder"),
   PA(38, 4, 8, 5, "Captain", "Saurav", "Bowler"),
   PA(39, 8, 0, 7, "Captain", "Vishal", "Batsman"),
   PA(40, 6, 10, 8, "Captain", "Pravakar", "Bowler")>>

VICE_CAPTAINS ==
 <<PA(41, 7, 10, 8, "Vice-Captain", "Abhijeet", "All-rounder"),
   PA(42, 10, 5, 10, "Vice-Captain", "Saurav", "Batsman"),
   PA(43, 8, 9, 8, "Vice-Captain", "Vishal", "All-rounder"),
   PA(44, 7, 10, 6, "Vice-Captain", "Pravakar", "All-rounder")>>

PLAYERS_RAW == AUCTION_PLAYERS \o CAPTAINS \o VICE_CAPTAINS

\* classify_role: captains / vice-captains use forced_role
classify_role(p) ==
    IF p.forced_role # "None" THEN p.forced_role
    ELSE IF p.batting >= 4 /\ p.bowling >= 4 THEN "All-rounder"
    ELSE IF p.bowling >= 4 THEN "Bowler"
    ELSE "Batsman"

\* compute_overall: round(bat*0.40 + bowl*0.40 + field*0.20, 1), in tenths.
\* The weighted sum has exactly one decimal, so rounding changes nothing.
compute_overall(p) == 4 * p.batting + 4 * p.bowling + 2 * p.fielding

\* classify_tier: thresholds 7.5 / 5.5 / 3.5 on overall (75 / 55 / 35 tenths)
classify_tier(p) ==
    IF p.tag \in {"Captain", "Vice-Captain"} THEN 1
    ELSE IF compute_overall(p) >= 75 THEN 1
    ELSE IF compute_overall(p) >= 55 THEN 2
    ELSE IF compute_overall(p) >= 35 THEN 3
    ELSE 4

\* the enrichment loop at import time: role, overall, tier added to a record
Enrich(p) ==
    [id |-> p.id, name |-> p.name, batting |-> p.batting, bowling |-> p.bowling,
     fielding |-> p.fielding, tag |-> p.tag, team |-> p.team,
     forced_role |-> p.forced_role,
     role |-> classify_role(p), overall |-> compute_overall(p),
     tier |-> classify_tier(p)]

PLAYERS == [i \in 1..Len(PLAYERS_RAW) |-> Enrich(PLAYERS_RAW[i])]

\* ---------------------------------------------------------------------
\* Bounds of the model
\* ---------------------------------------------------------------------
\* the auction log is explored up to this many recorded sales
MaxSales == 10

\* teams the modelled user records sales for
BiddingTeams == {"Abhijeet", "Saurav"}

\* a player the modelled user may open the auction with, out of turn
FeaturedIds == {17}

\* ---------------------------------------------------------------------
\* src/app.py: helper functions over the session state
\* ---------------------------------------------------------------------
\* the insertion-ordered dict: keys in order, lookup, assignment, deletion
LogKeys(log) == {log[i].pid : i \in 1..Len(log)}

LogEntries(log, team_name) == {i \in 1..Len(log) : log[i].team = team_name}

\* auction_log[pid] = {"team": ..., "price": ...}: an existing key keeps its
\* position and gets the new value, a new key goes to the end
DictSet(log, pid, team_name, price) ==
    IF pid \in LogKeys(log)
    THEN [i \in 1..Len(log) |->
             IF log[i].pid = pid
             THEN [pid |-> pid, team |-> team_name, price |-> price]
             ELSE log[i]]
    ELSE Append(log, [pid |-> pid, team |-> team_name, price |-> price])

\* del auction_log[pid]
DictDel(log, pid) == SelectSeq(log, LAMBDA e : e.pid # pid)

PlayerById(pdata, pid) ==
    pdata[CHOOSE i \in 1..Len(pdata) : pdata[i].id = pid]

get_pre_assigned_players(pdata, team_name) ==
    {pdata[i] : i \in {j \in 1..Len(pdata) :
        pdata[j].tag \in {"Captain", "Vice-Captain"} /\ pdata[j].team = team_name}}

get_auction_players(pdata, log, team_name) ==
    {PlayerById(pdata, log[i].pid) : i \in LogEntries(log, team_name)}

get_full_squad(pdata, log, team_name) ==
    get_pre_assigned_players(pdata, team_name)
        \cup get_auction_players(pdata, log, team_name)

\* len(get_full_squad(team_name)): the two lists concatenated
full_squad_len(pdata, log, team_name) ==
    Cardinality(get_pre_assigned_players(pdata, team_name))
        + Cardinality(LogEntries(log, team_name))

get_team_budget_spent(log, team_name) ==
    SumOver(LogEntries(log, team_name), [i \in 1..Len(log) |-> log[i].price])

get_team_remaining(log, team_name) ==
    BUDGET_PER_TEAM - get_team_budget_spent(log, team_name)

get_auction_count(log, team_name) == Cardinality(LogEntries(log, team_name))

\* variant: the pre-assigned filter (tag is None) left out
get_unsold_players_any_tag(pdata, log) ==
    LET sold_ids == LogKeys(log)
    IN  {pdata[i] : i \in {j \in 1..Len(pdata) : pdata[j].id \notin sold_ids}}

get_unsold_players(pdata, log) ==
    LET sold_ids == LogKeys(log)
    IN  {pdata[i] : i \in {j \in 1..Len(pdata) :
            pdata[j].id \notin sold_ids /\ pdata[j].tag = "None"}}

\* variant: nothing held back for the slots still to fill
max_affordable_no_reserve(log, team_name) == get_team_remaining(log, team_name)

max_affordable(log, team_name) ==
    LET remaining == get_team_remaining(log, team_name)
        slots == AUCTION_SLOTS - get_auction_count(log, team_name)
    IN  IF slots <= 1 THEN remaining
        ELSE remaining - (slots - 1) * BASE_PRICE

\* variant: <= in place of <
eligible_teams_off_by_one(log) ==
    {t \in Range(TEAMS) : get_auction_count(log, t) <= AUCTION_SLOTS}

\* tab1: eligible_teams = [t for t in TEAMS if get_auction_count(t) < AUCTION_SLOTS]
eligible_teams(log) ==
    {t \in Range(TEAMS) : get_auction_count(log, t) < AUCTION_SLOTS}

\* tab1: st.number_input(min_value=BASE_PRICE, max_value=max(BASE_PRICE, max_bid),
\* step=BID_INCREMENT): every value the widget accepts
SoldPriceRange(max_bid) ==
    {p \in BASE_PRICE..Max(BASE_PRICE, max_bid) :
        (p - BASE_PRICE) % BID_INCREMENT = 0}

\* the prices the modelled user enters: the least and the greatest accepted
SoldPriceInputs(max_bid) ==
    {p \in SoldPriceRange(max_bid) :
        p = BASE_PRICE \/ p = Max(BASE_PRICE, max_bid)}

\* the select-box entries the modelled user picks: the first (the default),
\* or a featured player to open the auction with
SelectInputs(unsold, log) ==
    LET ids == {p.id : p \in unsold}
    IN  {CHOOSE i \in ids : \A j \in ids : i <= j}
            \cup (IF Len(log) = 0 THEN ids \cap FeaturedIds ELSE {})

\* ---------------------------------------------------------------------
\* src/app.py: the auction's operations
\* ---------------------------------------------------------------------
\* tab1 "Confirm Sale" with sold_to chosen in the "Sold to Team" select box,
\* which lists eligible_teams only
ConfirmSaleTo(sold_to) ==
    /\ call = "none"
    /\ Len(auction_log) < MaxSales
    /\ sold_to \in eligible_teams(auction_log)
    /\ \E unsold \in {get_unsold_players(player_data, auction_log)} :
       /\ unsold # {}
       /\ \E selected_id \in SelectInputs(unsold, auction_log) :
          \E sold_price \in SoldPriceInputs(max_affordable(auction_log, sold_to)) :
             auction_log' = DictSet(auction_log, selected_id, sold_to, sold_price)
    /\ UNCHANGED <<player_data, engine_vars>>

ConfirmSale == \E sold_to \in BiddingTeams : ConfirmSaleTo(sold_to)

\* variant: the oldest recorded sale removed
UndoFirstSale ==
    /\ call = "none"
    /\ Len(auction_log) > 0
    /\ LET first_pid == auction_log[1].pid IN
       auction_log' = DictDel(auction_log, first_pid)
    /\ UNCHANGED <<player_data, engine_vars>>

\* tab1 "Undo Last Sale": shown only when the log is non-empty
UndoLastSale ==
    /\ call = "none"
    /\ Len(auction_log) > 0
    /\ LET last_pid == auction_log[Len(auction_log)].pid IN
       auction_log' = DictDel(auction_log, last_pid)
    /\ UNCHANGED <<player_data, engine_vars>>

\* sidebar "Reset Entire Auction"
ResetAuction ==
    /\ call = "none"
    /\ auction_log' = <<>>
    /\ UNCHANGED <<player_data, engine_vars>>

\* the engine's inputs when no engine call is modelled
NoPlayer == Enrich(AP(0, 0, 0, 0))

EngineIdle ==
    /\ unsold_players = {}
    /\ my_squad = {}
    /\ budget_remaining = 0
    /\ slots_left = 0
    /\ player = NoPlayer
    /\ all_teams_data = <<>>
    /\ call = "none"
    /\ solver = "optimal"
    /\ pc = "idle"
    /\ result = <<>>

\* session state init: empty log, a deep copy of PLAYERS
Init ==
    /\ auction_log = <<>>
    /\ player_data = PLAYERS
    /\ EngineIdle

Next == ConfirmSale \/ UndoLastSale \/ ResetAuction

Spec == Init /\ [][Next]_vars

\* ---------------------------------------------------------------------
\* Properties of the auction (specification Spec)
\* ---------------------------------------------------------------------
slots_remaining(log, t) == AUCTION_SLOTS - get_auction_count(log, t)

\* C8: in every reachable auction state each team's remaining budget is
\* non-negative and covers its remaining auction slots at the base price.
C8_BudgetCoversRemainingSlots ==
    \A t \in Range(TEAMS) :
        /\ get_team_remaining(auction_log, t) >= 0
        /\ get_team_remaining(auction_log, t)
              >= slots_remaining(auction_log, t) * BASE_PRICE

\* C8 witness: a team bought above the base price and is left with exactly
\* the base price for each of its remaining slots.
C8_Witness ==
    \E t \in Range(TEAMS) :
        /\ \E i \in LogEntries(auction_log, t) : auction_log[i].price > BASE_PRICE
        /\ slots_remaining(auction_log, t) >= 1
        /\ get_team_remaining(auction_log, t)
              = slots_remaining(auction_log, t) * BASE_PRICE

\* C9: no team ever holds more than 9 auction players or more than 11
\* players in all, and no sale to a team holding 9 auction players is enabled.
C9_SquadSizeBounded ==
    \A t \in Range(TEAMS) :
        /\ get_auction_count(auction_log, t) <= AUCTION_SLOTS
        /\ full_squad_len(player_data, auction_log, t) <= SQUAD_SIZE
        /\ get_auction_count(auction_log, t) = AUCTION_SLOTS
              => ~ENABLED ConfirmSaleTo(t)

\* C9 witness: a team has filled its 9 auction slots (11 players in all)
\* while players are still unsold and the log has room for another sale.
C9_Witness ==
    \E t \in Range(TEAMS) :
        /\ get_auction_count(auction_log, t) = AUCTION_SLOTS
        /\ full_squad_len(player_data, auction_log, t) = SQUAD_SIZE
        /\ get_unsold_players(player_data, auction_log) # {}
        /\ Len(auction_log) < MaxSales

auction_ids == {AUCTION_PLAYERS[i].id : i \in 1..Len(AUCTION_PLAYERS)}

ids_of(S) == {p.id : p \in S}

roster_ids(t) == ids_of(get_full_squad(player_data, auction_log, t))

pool_ids(pdata, log) == ids_of(get_unsold_players(pdata, log))

PoolPartitionOf(pool, roster, sold_ids) ==
    /\ pool = {i \in auction_ids : i \notin sold_ids}
    /\ \A t \in Range(TEAMS) :
          /\ pool \cap roster[t] = {}
          /\ Cardinality(roster[t]) = full_squad_len(player_data, auction_log, t)
    /\ \A t1, t2 \in Range(TEAMS) :
          t1 # t2 => roster[t1] \cap roster[t2] = {}
    /\ \A i \in 1..Len(player_data) :
          player_data[i].tag \in {"Captain", "Vice-Captain"}
              => player_data[i].id \notin pool

PoolPartition ==
    \A pool \in {pool_ids(player_data, auction_log)} :
    \A roster \in {[t \in Range(TEAMS) |-> roster_ids(t)]} :
    \A sold_ids \in {{auction_log[k].pid : k \in 1..Len(auction_log)}} :
        PoolPartitionOf(pool, roster, sold_ids)

SaleRemovesSoldPlayer ==
    Len(auction_log') = Len(auction_log) + 1 =>
        \A sold \in {auction_log'[Len(auction_log')].pid} :
        \A pool \in {pool_ids(player_data, auction_log)} :
            /\ sold \in pool
            /\ pool_ids(player_data', auction_log') = pool \ {sold}

\* C10: the pool is exactly the auction players without a log entry; pool and
\* rosters are disjoint, rosters are pairwise disjoint and hold no player
\* twice, captains and vice-captains are never in the pool, and a confirmed
\* sale removes exactly the sold player from the pool.
C10_PoolIsUnsoldPlayers == [](PoolPartition) /\ [][SaleRemovesSoldPlayer]_vars

\* C10 witness: a featured player and the first listed player have been sold
\* to different teams, and later-listed players are still in the pool.
C10_Witness ==
    /\ Len(auction_log) >= 2
    /\ auction_log[1].pid \in FeaturedIds
    /\ auction_log[1].team # auction_log[2].team
    /\ pool_ids(player_data, auction_log) # {}
    /\ \E i \in pool_ids(player_data, auction_log) : i < auction_log[1].pid

\* =====================================================================
\* src/optimizer.py: the engine.  Players are the catalog's enriched
\* records; a pool or a roster is the set of the records in the list.
\* =====================================================================

\* ---------------------------------------------------------------------
\* Bounds of the engine's inputs
\* ---------------------------------------------------------------------
\* pools are drawn from the first MaxPool players of PoolOrder
MaxPool == 5

\* rosters are the first 0..MaxSquad players of SquadOrder
MaxSquad == 6

\* budgets -1..MaxBudget, slot counts 0..MaxSlots
MaxBudget == 16

MaxSlots == 3

\* catalog ids, ordered to mix tiers, roles, bowling and equal overalls
PoolOrder == <<28, 7, 6, 2, 8, 4, 3, 19, 17, 10>>

\* the user's captain and vice-captain, then players bought earlier
SquadOrder == <<37, 41, 35, 36, 9, 11, 5, 18, 23, 20>>

PoolUniverse == {PLAYERS[PoolOrder[i]] : i \in 1..MaxPool}

PoolInputs == SUBSET PoolUniverse

SquadInputs == {{PLAYERS[SquadOrder[i]] : i \in 1..n} : n \in 0..MaxSquad}

BudgetInputs == (0 - 1)..MaxBudget

SlotInputs == 0..MaxSlots

\* ---------------------------------------------------------------------
\* Helpers and the squad needs analyzer
\* ---------------------------------------------------------------------
can_bowl(p) == p.bowling >= 4

CountIf(S, Test(_)) == Cardinality({p \in S : Test(p)})

SumOverall(S) == SumOver(S, [p \in S |-> p.overall])

\* variant: a third bowler asked for
analyze_squad_needs_three_bowlers(squad) ==
    LET bowlers_who_can_bowl == CountIf(squad, can_bowl)
        bat_count == CountIf(squad, LAMBDA p : p.role = "Batsman")
        bowl_count == CountIf(squad, LAMBDA p : p.role = "Bowler")
        ar_count == CountIf(squad, LAMBDA p : p.role = "All-rounder")
    IN  [bowlers_who_can_bowl |-> bowlers_who_can_bowl,
         bowlers_needed |-> Max(0, 6 - bowlers_who_can_bowl),
         bat_count |-> bat_count,
         bowl_count |-> bowl_count,
         ar_count |-> ar_count,
         role_needs |->
             (IF bowlers_who_can_bowl < 6 THEN {"need_bowlers"} ELSE {})
             \cup (IF bat_count < 3 THEN {"Batsman"} ELSE {})
             \cup (IF bowl_count < 3 THEN {"Bowler"} ELSE {})
             \cup (IF ar_count < 2 THEN {"All-rounder"} ELSE {})]

analyze_squad_needs(squad) ==
    LET bowlers_who_can_bowl == CountIf(squad, can_bowl)
        bat_count == CountIf(squad, LAMBDA p : p.role = "Batsman")
        bowl_count == CountIf(squad, LAMBDA p : p.role = "Bowler")
        ar_count == CountIf(squad, LAMBDA p : p.role = "All-rounder")
    IN  [bowlers_who_can_bowl |-> bowlers_who_can_bowl,
         bowlers_needed |-> Max(0, 6 - bowlers_who_can_bowl),
         bat_count |-> bat_count,
         bowl_count |-> bowl_count,
         ar_count |-> ar_count,
         role_needs |->
             (IF bowlers_who_can_bowl < 6 THEN {"need_bowlers"} ELSE {})
             \cup (IF bat_count < 3 THEN {"Batsman"} ELSE {})
             \cup (IF bowl_count < 2 THEN {"Bowler"} ELSE {})
             \cup (IF ar_count < 2 THEN {"All-rounder"} ELSE {})]

\* ---------------------------------------------------------------------
\* solve_optimal_squad: the 0/1 program handed to the solver
\* ---------------------------------------------------------------------
\* current_bowlers / bowlers_still_needed
bowlers_still_needed(squad) == Max(0, 6 - CountIf(squad, can_bowl))

\* variant: the budget row left out of A_ub
MilpFeasible_no_budget(unsold, squad, budget, slots) ==
    {x \in SUBSET unsold :
        /\ Cardinality(x) = slots
        /\ bowlers_still_needed(squad) > 0
              => CountIf(x, can_bowl) >= bowlers_still_needed(squad)}

\* variant: the bowling row left out of A_ub
MilpFeasible_no_quota(unsold, squad, budget, slots) ==
    {x \in SUBSET unsold :
        /\ Cardinality(x) = slots
        /\ BASE_PRICE * Cardinality(x) <= budget}

\* variant: the budget row as an equality, the whole budget to be spent
MilpFeasible_budget_spent(unsold, squad, budget, slots) ==
    {x \in SUBSET unsold :
        /\ Cardinality(x) = slots
        /\ BASE_PRICE * Cardinality(x) = budget
        /\ bowlers_still_needed(squad) > 0
              => CountIf(x, can_bowl) >= bowlers_still_needed(squad)}

\* the assignments x (as the set of players with x_i = 1) that satisfy
\*   A_eq:  sum x_i = slots_left
\*   A_ub:  sum BASE_PRICE * x_i <= budget_remaining
\*   A_ub:  sum -can_bowl_i * x_i <= -bowlers_still_needed   (only when > 0)
MilpFeasible(unsold, squad, budget, slots) ==
    {x \in SUBSET unsold :
        /\ Cardinality(x) = slots
        /\ BASE_PRICE * Cardinality(x) <= budget
        /\ bowlers_still_needed(squad) > 0
              => CountIf(x, can_bowl) >= bowlers_still_needed(squad)}

\* variant: the objective not negated, so the solver minimises the total
MilpOptimal_not_negated(feasible) ==
    {x \in feasible : \A y \in feasible : SumOverall(x) <= SumOverall(y)}

\* linprog(c = -overalls, ..., integrality = 1): success with an optimal
\* assignment when one exists; which of several optimal ones is the solver's
\* choice.  The set of the assignments it may return.
MilpOptimal(feasible) ==
    {x \in feasible : \A y \in feasible : SumOverall(y) <= SumOverall(x)}

\* variant: an except clause that catches nothing
except_catches_nothing(outcome) == FALSE

\* try: linprog(...) except Exception: what the except clause catches
except_catches(outcome) == outcome = "exception"

\* the call of linprog is reached
solver_called(unsold, slots) == ~(Cardinality(unsold) = 0 \/ slots <= 0)

\* an exception leaves solve_optimal_squad: the solver raised and the except
\* clause did not catch it
solve_optimal_squad_raises(unsold, squad, budget, slots) ==
    /\ solver_called(unsold, slots)
    /\ solver = "exception"
    /\ ~except_catches(solver)

\* the values solve_optimal_squad may return ({} is the empty list)
solve_optimal_squad(unsold, squad, budget, slots) ==
    IF ~solver_called(unsold, slots) THEN {{}}
    ELSE IF solver = "exception" THEN {{}}
    ELSE IF solver = "failure" THEN {{}}
    ELSE IF MilpFeasible(unsold, squad, budget, slots) = {} THEN {{}}
    ELSE MilpOptimal(MilpFeasible(unsold, squad, budget, slots))

\* ---------------------------------------------------------------------
\* Specification SolveSpec: one call of solve_optimal_squad
\* ---------------------------------------------------------------------
AppIdle ==
    /\ auction_log = <<>>
    /\ player_data = PLAYERS

\* the library solver keeps its contract
SolverWorks == solver = "optimal"

SolveInit ==
    /\ AppIdle
    /\ SolverWorks
    /\ unsold_players \in PoolInputs
    /\ my_squad \in SquadInputs
    /\ budget_remaining \in BudgetInputs
    /\ slots_left \in SlotInputs
    /\ player = NoPlayer
    /\ all_teams_data = <<>>
    /\ call = "solve_optimal_squad"
    /\ pc = "called"
    /\ result = <<>>

SolveOptimalSquad ==
    /\ call = "solve_optimal_squad"
    /\ pc = "called"
    /\ IF solve_optimal_squad_raises(unsold_players, my_squad,
                                     budget_remaining, slots_left)
       THEN result' = "Exception" /\ pc' = "raised"
       ELSE /\ result' \in solve_optimal_squad(unsold_players, my_squad,
                                                budget_remaining, slots_left)
            /\ pc' = "returned"
    /\ UNCHANGED <<auction_log, player_data, engine_inputs>>

SolveNext == SolveOptimalSquad

SolveSpec == SolveInit /\ [][SolveNext]_vars

\* ---------------------------------------------------------------------
\* Properties of solve_optimal_squad (specification SolveSpec)
\* ---------------------------------------------------------------------
Solved == call = "solve_optimal_squad" /\ pc = "returned"

roster_can_bowl == Cardinality({p \in my_squad : p.bowling >= 4})

picks_can_bowl(x) == Cardinality({p \in x : p.bowling >= 4})

\* a K-subset of the pool within the budget and meeting the bowling quota
MeetsConstraints(x) ==
    /\ x \subseteq unsold_players
    /\ Cardinality(x) = slots_left
    /\ Cardinality(x) * BASE_PRICE <= budget_remaining
    /\ roster_can_bowl < 6 => picks_can_bowl(x) >= 6 - roster_can_bowl

C3_BowlingQuota ==
    (Solved /\ slots_left >= 1 /\ roster_can_bowl < 6) =>
        /\ result # {} => picks_can_bowl(result) >= 6 - roster_can_bowl
        /\ (\/ picks_can_bowl(unsold_players) < 6 - roster_can_bowl
            \/ slots_left < 6 - roster_can_bowl) => result = {}

\* C3 witness: the quota binds: a pool player who cannot bowl and is rated
\* above one of the picks is left out.
C3_Witness ==
    /\ Solved
    /\ roster_can_bowl < 6
    /\ result # {}
    /\ picks_can_bowl(result) = 6 - roster_can_bowl
    /\ \E p \in unsold_players \ result : \E q \in result :
          p.bowling < 4 /\ p.overall > q.overall

\* C3 second case: the pool has too few bowling-capable players for a budget
\* and slot count that would otherwise do.
C3_WitnessShortPool ==
    /\ Solved
    /\ slots_left >= 1
    /\ roster_can_bowl < 6
    /\ picks_can_bowl(unsold_players) < 6 - roster_can_bowl
    /\ slots_left >= 6 - roster_can_bowl
    /\ Cardinality(unsold_players) >= slots_left
    /\ budget_remaining >= slots_left * BASE_PRICE
    /\ result = {}

\* ---------------------------------------------------------------------
\* recommend_max_bid.  Overall values and marginal_value are in tenths,
\* need_premium in tenths, raw_max in fortieths of a currency unit.
\* ---------------------------------------------------------------------
\* round(x) of Python for x = n / d >= 0: to the nearest integer, a tie to
\* the even one
RoundHalfEven(n, d) ==
    LET q == n \div d
        r == n % d
    IN  IF 2 * r < d THEN q
        ELSE IF 2 * r > d THEN q + 1
        ELSE IF q % 2 = 0 THEN q ELSE q + 1

\* round(x, k) of a floating-point quotient or product whose exact value is
\* n / d >= 0 (in units of the last kept digit): the nearest integer; when
\* the exact value lies half-way, the binary value is on one side or the
\* other, and either neighbour may result
RoundTies(n, d) ==
    IF 2 * (n % d) < d THEN {n \div d}
    ELSE IF 2 * (n % d) > d THEN {n \div d + 1}
    ELSE {n \div d, n \div d + 1}

\* hard_max = budget_remaining - (slots_left - 1) * BASE_PRICE
\*            if slots_left > 1 else budget_remaining
recommend_hard_max(budget, slots) ==
    IF slots > 1 THEN budget - (slots - 1) * BASE_PRICE ELSE budget

\* baseline_ovr = sum(...) if baseline_squad else 0
baseline_ovr_of(baseline_squad) ==
    IF baseline_squad # {} THEN SumOverall(baseline_squad) ELSE 0

\* boosted_ovr = player["overall"] + sum(...) if boosted_squad else 0:
\* the conditional expression takes the whole sum as its first branch
boosted_ovr_of(p, boosted_squad) ==
    IF boosted_squad # {} THEN p.overall + SumOverall(boosted_squad) ELSE 0

\* need_premium, in tenths
need_premium_of(p, unsold, analysis, slots) ==
    (IF analysis.bowlers_needed > 0 /\ can_bowl(p)
     THEN LET available_bowlers == CountIf(unsold, can_bowl)
              scarcity == Max(0, analysis.bowlers_needed - available_bowlers + 1)
          IN  scarcity * 30 + p.bowling * 5
     ELSE 0)
    + (IF p.role \in analysis.role_needs
       THEN IF CountIf(unsold, LAMBDA u : u.role = p.role) <= slots
            THEN 50 ELSE 20
       ELSE 0)

\* tier_premium = {1: 8, 2: 4, 3: 1, 4: 0}.get(tier, 0)
tier_premium_of(p) ==
    CASE p.tier = 1 -> 8
      [] p.tier = 2 -> 4
      [] p.tier = 3 -> 1
      [] OTHER -> 0

\* raw_max = BASE_PRICE + marginal_value * 1.5 + need_premium + tier_premium,
\* halved above 30; in fortieths
raw_max_of(marginal_value, need_premium, tier_premium) ==
    LET raw == 40 * BASE_PRICE + 6 * marginal_value + 4 * need_premium
                   + 40 * tier_premium
    IN  IF raw > 30 * 40 THEN 30 * 40 + (raw - 30 * 40) \div 2 ELSE raw

\* the sums of overall values are floating-point sums: boosted_ovr is the
\* integer 0 when the boosted squad is empty, and marginal_value is then the
\* integer 0; otherwise marginal_value carries the rounding error of the sums
marginal_value_is_exact(boosted_squad) == boosted_squad = {}

\* int(round(raw_max)): a tie goes to the even neighbour when raw_max is
\* exact, to either neighbour when it carries a rounding error
rounded_raw_max(raw_max, exact) ==
    IF exact THEN {RoundHalfEven(raw_max, 40)} ELSE RoundTies(raw_max, 40)

\* variant: the lower clamp applied before the cap
clamp_recommended_cap_last(rounded, hard_max) ==
    Min(Max(rounded, BASE_PRICE), hard_max)

\* recommended = min(int(round(raw_max)), hard_max); max(recommended, BASE_PRICE)
clamp_recommended(rounded, hard_max) ==
    Max(Min(rounded, hard_max), BASE_PRICE)

\* marginal_value >= threshold on the floating-point value: when the exact
\* difference equals the threshold, the computed one is on either side of it
float_ge(marginal_value, threshold, exact) ==
    IF exact \/ marginal_value # threshold
    THEN {marginal_value >= threshold}
    ELSE {TRUE, FALSE}

\* the verdict chain; must_buy and good_buy are the outcomes of
\* marginal_value >= 3 and marginal_value >= 1
verdict_of(p, analysis, must_buy, good_buy) ==
    IF must_buy THEN "MUST BUY"
    ELSE IF good_buy THEN "GOOD BUY"
    ELSE IF p.role \in analysis.role_needs THEN "NEED-BASED BUY"
    ELSE IF can_bowl(p) /\ analysis.bowlers_needed > 0 THEN "BOWLING NEED"
    ELSE "SKIP / BASE ONLY"

\* variant: the difference not clamped at 0
marginal_value_unclamped(boosted_ovr, baseline_ovr) ==
    boosted_ovr - baseline_ovr

\* marginal_value = max(0, boosted_ovr - baseline_ovr)
marginal_value_of(boosted_ovr, baseline_ovr) ==
    Max(0, boosted_ovr - baseline_ovr)

\* the returned dicts, given what the two solver calls returned
recommendation(p, squad, unsold, budget, slots, baseline_squad, boosted_squad) ==
    LET analysis == analyze_squad_needs(squad)
        hard_max == recommend_hard_max(budget, slots)
        baseline_ovr == baseline_ovr_of(baseline_squad)
        boosted_ovr == boosted_ovr_of(p, boosted_squad)
        marginal_value == marginal_value_of(boosted_ovr, baseline_ovr)
        need_premium == need_premium_of(p, unsold, analysis, slots)
        tier_premium == tier_premium_of(p)
        raw_max == raw_max_of(marginal_value, need_premium, tier_premium)
        exact == marginal_value_is_exact(boosted_squad)
    IN  {[player |-> p,
          recommended_max |-> clamp_recommended(rounded, hard_max),
          hard_max |-> hard_max,
          marginal_value |-> marginal_value,
          need_premium |-> need_premium,
          tier_premium |-> tier_premium,
          verdict |-> verdict_of(p, analysis, must_buy, good_buy),
          baseline_ovr |-> baseline_ovr,
          boosted_ovr |-> boosted_ovr] :
            rounded \in rounded_raw_max(raw_max, exact),
            must_buy \in float_ge(marginal_value, 30, exact),
            good_buy \in float_ge(marginal_value, 10, exact)}

\* variant: the extra players appended to the caller's list
roster_extended_in_place(squad, extra) == squad \cup extra

\* my_squad + [player], my_squad + optimal_picks and my_squad +
\* realistic_picks build new lists: the caller's roster after the call
roster_after_concat(squad, extra) == squad

\* others = [p for p in unsold_players if p["id"] != player["id"]]
others_of(p, unsold) == {u \in unsold : u.id # p.id}

\* an exception leaves recommend_max_bid: one of its two solver calls raised
recommend_max_bid_raises(p, squad, unsold, budget, slots) ==
    \/ solve_optimal_squad_raises(others_of(p, unsold), squad, budget, slots)
    \/ solve_optimal_squad_raises(others_of(p, unsold), squad \cup {p},
                                  budget - BASE_PRICE, slots - 1)

\* the values recommend_max_bid may return
recommend_max_bid(p, squad, unsold, budget, slots) ==
    UNION
    {recommendation(p, squad, unsold, budget, slots, baseline_squad, boosted_squad) :
        baseline_squad \in
            solve_optimal_squad(others_of(p, unsold), squad, budget, slots),
        boosted_squad \in
            solve_optimal_squad(others_of(p, unsold), squad \cup {p},
                                budget - BASE_PRICE, slots - 1)}

\* ---------------------------------------------------------------------
\* Specification BidSpec: one call of recommend_max_bid for a pool player
\* ---------------------------------------------------------------------
BidInit ==
    /\ AppIdle
    /\ SolverWorks
    /\ unsold_players \in PoolInputs
    /\ player \in unsold_players
    /\ my_squad \in SquadInputs
    /\ budget_remaining \in BudgetInputs
    /\ slots_left \in SlotInputs
    /\ all_teams_data = <<>>
    /\ call = "recommend_max_bid"
    /\ pc = "called"
    /\ result = <<>>

RecommendMaxBid ==
    /\ call = "recommend_max_bid"
    /\ pc = "called"
    /\ IF recommend_max_bid_raises(player, my_squad, unsold_players,
                                   budget_remaining, slots_left)
       THEN result' = "Exception" /\ pc' = "raised"
       ELSE /\ result' \in recommend_max_bid(player, my_squad, unsold_players,
                                              budget_remaining, slots_left)
            /\ pc' = "returned"
    /\ my_squad' = roster_after_concat(my_squad, {player})
    /\ UNCHANGED <<auction_log, player_data, unsold_players, budget_remaining,
                   slots_left, player, all_teams_data, call, solver>>

BidNext == RecommendMaxBid

BidSpec == BidInit /\ [][BidNext]_vars

\* ---------------------------------------------------------------------
\* Properties of recommend_max_bid (specification BidSpec)
\* ---------------------------------------------------------------------
Recommended == call = "recommend_max_bid" /\ pc = "returned"

\* C4: for budget_remaining >= 0 and slots_left >= 1, recommended_max lies
\* between the base price and hard_max, and hard_max is at most
\* budget_remaining, also when hard_max is below the base price.
C4_RecommendedWithinHardMax ==
    (Recommended /\ budget_remaining >= 0 /\ slots_left >= 1) =>
        /\ BASE_PRICE <= result.recommended_max
        /\ result.recommended_max <= result.hard_max
        /\ result.hard_max <= budget_remaining

\* C5: the boosted total is the candidate's own overall plus the total of the
\* optimizer's picks for slots_left - 1 slots; with slots_left = 1 (no picks
\* because no extra slot remains) it is the candidate's own overall.
C5_BoostedCountsCandidate ==
    (Recommended /\ slots_left >= 1) =>
        \A picks \in solve_optimal_squad(others_of(player, unsold_players),
                                         my_squad \cup {player},
                                         budget_remaining - BASE_PRICE,
                                         slots_left - 1) :
            (picks # {} \/ slots_left = 1) =>
                result.boosted_ovr = player.overall + SumOverall(picks)

FarAboveAlternatives ==
    /\ \A u \in others_of(player, unsold_players) :
          player.overall >= u.overall + 30
    /\ roster_can_bowl >= 6
    /\ Cardinality(others_of(player, unsold_players)) >= slots_left
    /\ budget_remaining >= slots_left * BASE_PRICE

\* C6: a candidate rated at least 3.0 above every other pool player, with no
\* bowling shortfall, at least slots_left other pool players and a budget of
\* at least slots_left base prices, gets marginal_value > 0 and MUST BUY for
\* every slots_left >= 1, the last slot included.
C6_StarIsMustBuy ==
    (Recommended /\ slots_left >= 1 /\ FarAboveAlternatives) =>
        /\ result.marginal_value > 0
        /\ result.verdict = "MUST BUY"

\* the same with two or more slots to fill
StarIsMustBuyBeforeLastSlot ==
    (Recommended /\ slots_left >= 2 /\ FarAboveAlternatives) =>
        /\ result.marginal_value > 0
        /\ result.verdict = "MUST BUY"

\* ---------------------------------------------------------------------
\* estimate_competition and predict_auction_price.  A desire is kept as the
\* exact number of 1/200ths (the additive terms are halves, the budget
\* factor is (50 + budget_left) / 100); desire_score is in tenths.
\* ---------------------------------------------------------------------
\* the (budget_left, slots_left) a competitor's view is drawn from.  On these
\* budgets the exact arithmetic below gives what the code's floating-point
\* arithmetic gives, for every sum of desire terms.
CompetitorViews ==
    {<<100, 9>>, <<50, 2>>, <<14, 2>>, <<6, 2>>, <<10, 1>>, <<4, 1>>, <<30, 0>>}

\* desire before the budget factor, in halves
desire_terms(p, needs, unsold, slots) ==
    (IF p.role \in needs.role_needs THEN 6 ELSE 0)
    + (IF needs.bowlers_needed > 0 /\ can_bowl(p) THEN 5 ELSE 0)
    + (IF p.tier = 1 THEN 6 ELSE IF p.tier = 2 THEN 3 ELSE 0)
    + (IF CountIf(unsold, LAMBDA u : u.role = p.role /\ u.id # p.id) <= slots
       THEN 4 ELSE 0)

\* reasons.append(...) in the order of the code; a formatted string is the
\* tuple of its fixed text and the values it interpolates
desire_reasons(p, needs, unsold, slots) ==
    LET same_role_remaining ==
            CountIf(unsold, LAMBDA u : u.role = p.role /\ u.id # p.id)
    IN  (IF p.role \in needs.role_needs THEN <<<<"Needs", p.role>>>> ELSE <<>>)
        \o (IF needs.bowlers_needed > 0 /\ can_bowl(p)
            THEN <<<<"Needs bowling", needs.bowlers_needed>>>> ELSE <<>>)
        \o (IF p.tier = 1 THEN <<<<"Elite player (Tier 1)">>>>
            ELSE IF p.tier = 2 THEN <<<<"Strong player (Tier 2)">>>> ELSE <<>>)
        \o (IF same_role_remaining <= slots
            THEN <<<<"Only left in pool", same_role_remaining, p.role>>>>
            ELSE <<>>)

\* desire *= (0.5 + budget_left / BUDGET_PER_TEAM), in 1/200ths
desire_scaled(terms, budget_left) ==
    terms * (BUDGET_PER_TEAM \div 2 + budget_left)

\* <<desire before the budget factor in halves, budget_left>> for
\* 0 <= budget_left <= 100 where desire * (0.5 + budget_ratio) lies half-way
\* between two tenths and the floating-point product is on the side of the
\* odd one
DesireTieRoundsOdd ==
    {<<3, 60>>, <<5, 16>>, <<5, 24>>, <<5, 32>>, <<5, 36>>, <<5, 44>>,
     <<5, 48>>, <<5, 52>>, <<5, 56>>, <<5, 64>>, <<5, 76>>, <<5, 84>>,
     <<5, 92>>, <<6, 5>>, <<6, 35>>, <<6, 85>>, <<6, 95>>, <<7, 40>>,
     <<7, 60>>, <<7, 80>>, <<9, 20>>, <<9, 80>>, <<10, 1>>, <<10, 3>>,
     <<10, 7>>, <<10, 9>>, <<10, 13>>, <<10, 21>>, <<10, 27>>, <<10, 31>>,
     <<10, 37>>, <<10, 39>>, <<10, 41>>, <<10, 57>>, <<10, 61>>, <<10, 69>>,
     <<10, 77>>, <<10, 79>>, <<10, 83>>, <<10, 87>>, <<10, 91>>, <<10, 97>>,
     <<10, 99>>, <<11, 60>>, <<13, 20>>, <<13, 40>>, <<13, 80>>, <<14, 5>>,
     <<14, 15>>, <<14, 85>>, <<15, 4>>, <<15, 8>>, <<15, 12>>, <<15, 24>>,
     <<15, 28>>, <<15, 36>>, <<15, 48>>, <<15, 52>>, <<15, 68>>, <<15, 88>>,
     <<15, 96>>, <<17, 20>>, <<17, 40>>, <<17, 80>>, <<18, 15>>, <<18, 45>>,
     <<18, 55>>, <<18, 65>>, <<21, 20>>, <<21, 40>>, <<21, 80>>}

\* round(desire, 1), in tenths
desire_score_of(terms, budget_left) ==
    LET desire == desire_scaled(terms, budget_left)
        even == RoundHalfEven(desire, 20)
    IN  IF <<terms, budget_left>> \in DesireTieRoundsOdd
        THEN IF even * 20 > desire THEN even - 1 ELSE even + 1
        ELSE even

\* the pairs where desire * 2.5 is a whole number and the floating-point
\* product falls just short of it
BidProductFallsShort ==
    {<<10, 86>>, <<12, 90>>, <<15, 94>>, <<18, 70>>}

\* the desire as int(BASE_PRICE + desire * 2.5) sees it, in 1/200ths
desire_truncated(terms, budget_left) ==
    IF <<terms, budget_left>> \in BidProductFallsShort
    THEN desire_scaled(terms, budget_left) - 1
    ELSE desire_scaled(terms, budget_left)

\* hard_max of a competitor
competitor_hard_max(budget_left, slots) ==
    IF slots > 1 THEN budget_left - (slots - 1) * BASE_PRICE ELSE budget_left

\* variant: the unclamped estimate rounded to the nearest whole number
estimated_bid_rounded(desire, hard_max) ==
    Max(Min(RoundHalfEven(BASE_PRICE * 400 + desire * 5, 400), hard_max),
        BASE_PRICE)

\* estimated_bid = min(int(BASE_PRICE + desire * 2.5), hard_max);
\* estimated_bid = max(estimated_bid, BASE_PRICE)
estimated_bid_of(desire, hard_max) ==
    Max(Min(BASE_PRICE + (desire * 5) \div 400, hard_max), BASE_PRICE)

\* desire of a team that is not skipped, after the budget factor
competitor_desire(p, team_info, unsold) ==
    desire_scaled(desire_terms(p, analyze_squad_needs(team_info.squad), unsold,
                               team_info.slots_left),
                  team_info.budget_left)

\* desire of a team before the budget factor, in halves
competitor_terms(p, team_info, unsold) ==
    desire_terms(p, analyze_squad_needs(team_info.squad), unsold,
                 team_info.slots_left)

\* the dict the loop appends for a team that is not skipped
competitor_entry(p, team_name, team_info, unsold) ==
    [team |-> team_name,
     desire_score |->
         desire_score_of(competitor_terms(p, team_info, unsold),
                         team_info.budget_left),
     estimated_max_bid |->
         estimated_bid_of(desire_truncated(competitor_terms(p, team_info, unsold),
                                           team_info.budget_left),
             competitor_hard_max(team_info.budget_left, team_info.slots_left)),
     reasons |-> desire_reasons(p, analyze_squad_needs(team_info.squad), unsold,
                                team_info.slots_left),
     budget_left |-> team_info.budget_left,
     slots_left |-> team_info.slots_left]

\* variant: the own team not skipped
competitor_considered_own_too(team_name, team_info) ==
    ~(team_info.slots_left <= 0 \/ team_info.budget_left < BASE_PRICE)

\* the teams the loop does not skip
competitor_considered(team_name, team_info) ==
    /\ team_name # "Abhijeet"
    /\ ~(team_info.slots_left <= 0 \/ team_info.budget_left < BASE_PRICE)

RECURSIVE competitors_upto(_, _, _, _)
\* the list after the first n teams of all_teams_data.items()
competitors_upto(n, p, teams_data, unsold) ==
    IF n = 0 THEN <<>>
    ELSE LET before == competitors_upto(n - 1, p, teams_data, unsold)
             team_name == TEAMS[n]
         IN  IF competitor_considered(team_name, teams_data[team_name])
                /\ competitor_desire(p, teams_data[team_name], unsold) > 0
             THEN Append(before,
                      competitor_entry(p, team_name, teams_data[team_name], unsold))
             ELSE before

RECURSIVE sort_by_desire(_)
\* competitors.sort(key=lambda x: -x["desire_score"]): stable, descending
sort_by_desire(seq) ==
    IF Len(seq) <= 1 THEN seq
    ELSE LET best == CHOOSE i \in 1..Len(seq) :
                 /\ \A j \in 1..Len(seq) :
                       seq[j].desire_score <= seq[i].desire_score
                 /\ \A j \in 1..(i - 1) :
                       seq[j].desire_score < seq[i].desire_score
             rest == [k \in 1..(Len(seq) - 1) |->
                         IF k < best THEN seq[k] ELSE seq[k + 1]]
         IN  <<seq[best]>> \o sort_by_desire(rest)

estimate_competition(p, teams_data, unsold) ==
    sort_by_desire(competitors_upto(Len(TEAMS), p, teams_data, unsold))

\* tier_mult = {1: 1.4, 2: 1.2, 3: 1.0, 4: 0.9}.get(tier, 1.0), in tenths
tier_mult_of(p) ==
    CASE p.tier = 1 -> 14
      [] p.tier = 2 -> 12
      [] p.tier = 4 -> 9
      [] OTHER -> 10

\* int(x * m / 10) as the floating-point product gives it for 0 <= x < 165:
\* the product falls just short of the integer for these x
TruncProduct(x, m) ==
    IF (m = 14 /\ x \in {45, 85, 90}) \/ (m = 7 /\ x = 90)
    THEN (x * m) \div 10 - 1
    ELSE (x * m) \div 10

\* bids = sorted(estimated_max_bid, reverse=True)
max_bid_of(competitors) ==
    CHOOSE b \in {competitors[i].estimated_max_bid : i \in 1..Len(competitors)} :
        \A i \in 1..Len(competitors) : competitors[i].estimated_max_bid <= b

second_bid_of(competitors) ==
    LET top == CHOOSE i \in 1..Len(competitors) :
                   competitors[i].estimated_max_bid = max_bid_of(competitors)
        rest == {i \in 1..Len(competitors) : i # top}
    IN  CHOOSE b \in {competitors[i].estimated_max_bid : i \in rest} :
            \A i \in rest : competitors[i].estimated_max_bid <= b

\* variant: the second bid plus one increment, not capped at the highest bid
clearing_bid_uncapped(competitors) ==
    IF Len(competitors) >= 2
    THEN second_bid_of(competitors) + BID_INCREMENT
    ELSE max_bid_of(competitors)

\* predicted before the tier multiplier
clearing_bid(competitors) ==
    IF Len(competitors) >= 2
    THEN Min(max_bid_of(competitors), second_bid_of(competitors) + BID_INCREMENT)
    ELSE max_bid_of(competitors)

\* level, without the leading colour glyph of the code's strings
competition_level_of(competitors) ==
    LET top_desire == competitors[1].desire_score
        num_competing ==
            Cardinality({i \in 1..Len(competitors) :
                            competitors[i].desire_score > 20})
    IN  IF num_competing >= 3 \/ top_desire > 80 THEN "Fierce"
        ELSE IF num_competing >= 2 \/ top_desire > 50 THEN "Moderate"
        ELSE "Low"

\* low_price, high_price
price_range_of(predicted, competitors) ==
    <<Max(BASE_PRICE, TruncProduct(predicted, 7)),
      Min(TruncProduct(predicted, 15), max_bid_of(competitors))>>

SubSeqUpTo(seq, n) == SubSeq(seq, 1, Min(n, Len(seq)))

predict_auction_price(p, teams_data, unsold) ==
    LET competitors == estimate_competition(p, teams_data, unsold) IN
    IF competitors = <<>>
    THEN [predicted_price |-> BASE_PRICE,
          competition_level |-> "Low",
          competing_teams |-> <<>>,
          price_range |-> <<BASE_PRICE, BASE_PRICE>>]
    ELSE LET predicted ==
                 Max(TruncProduct(clearing_bid(competitors), tier_mult_of(p)),
                     BASE_PRICE)
         IN  [predicted_price |-> predicted,
              competition_level |-> competition_level_of(competitors),
              competing_teams |-> SubSeqUpTo(competitors, 3),
              price_range |-> price_range_of(predicted, competitors)]

\* ---------------------------------------------------------------------
\* Specification PriceSpec: one call of predict_auction_price for a pool
\* player, with every team's view as build_all_teams_data lays it out
\* ---------------------------------------------------------------------
TeamView(team_name, budget_left_in, slots_left_in) ==
    [squad |-> get_pre_assigned_players(PLAYERS, team_name),
     budget_left |-> budget_left_in,
     slots_left |-> slots_left_in,
     budget_spent |-> BUDGET_PER_TEAM - budget_left_in]

\* {team: {squad, budget_left, slots_left}} over TEAMS
TeamsDataInputs ==
    {[t \in Range(TEAMS) |->
         CASE t = "Abhijeet" -> TeamView(t, BUDGET_PER_TEAM, AUCTION_SLOTS)
           [] t = "Saurav" -> TeamView(t, a[1], a[2])
           [] t = "Vishal" -> TeamView(t, b[1], b[2])
           [] OTHER -> TeamView(t, c[1], c[2])] :
        a \in CompetitorViews, b \in CompetitorViews, c \in CompetitorViews}

PriceInit ==
    /\ AppIdle
    /\ SolverWorks
    /\ unsold_players \in PoolInputs
    /\ player \in unsold_players
    /\ my_squad = get_pre_assigned_players(PLAYERS, "Abhijeet")
    /\ budget_remaining = BUDGET_PER_TEAM
    /\ slots_left = AUCTION_SLOTS
    /\ all_teams_data \in TeamsDataInputs
    /\ call = "predict_auction_price"
    /\ pc = "called"
    /\ result = <<>>

PredictAuctionPrice ==
    /\ call = "predict_auction_price"
    /\ pc = "called"
    /\ result' = predict_auction_price(player, all_teams_data, unsold_players)
    /\ pc' = "returned"
    /\ UNCHANGED <<auction_log, player_data, engine_inputs>>

PriceNext == PredictAuctionPrice

PriceSpec == PriceInit /\ [][PriceNext]_vars

\* ---------------------------------------------------------------------
\* Claim about predict_auction_price
\* ---------------------------------------------------------------------
Predicted == call = "predict_auction_price" /\ pc = "returned"

\* C7: for every candidate, competitor view and pool, predict_auction_price
\* returns predicted_price >= BASE_PRICE and a price_range (low, high) with
\* low <= predicted_price <= high, for every tier multiplier.
C7_PredictedWithinRange ==
    Predicted =>
        /\ result.predicted_price >= BASE_PRICE
        /\ result.price_range[1] <= result.predicted_price
        /\ result.predicted_price <= result.price_range[2]

\* the part of C7 that the code does keep: the base price and the lower end
PredictedAtLeastBaseAndLow ==
    Predicted =>
        /\ result.predicted_price >= BASE_PRICE
        /\ result.price_range[1] <= result.predicted_price
        /\ BASE_PRICE <= result.price_range[1]

\* a single bidder and a tier-1 candidate: the multiplier lifts the
\* prediction above the highest estimated bid, which caps the range
PredictedAboveRange ==
    /\ Predicted
    /\ player.tier = 1
    /\ Len(result.competing_teams) = 1
    /\ result.predicted_price > result.price_range[2]

\* ---------------------------------------------------------------------
\* Budget monotonicity of solve_optimal_squad (specification SolveSpec)
\* ---------------------------------------------------------------------
\* the totals a call with the given budget may return, pool, roster and
\* slot count as in the state (the empty list counts 0)
TotalsWithBudget(b) ==
    {SumOverall(x) :
        x \in solve_optimal_squad(unsold_players, my_squad, b, slots_left)}

\* C11: for fixed pool, roster and slot count, if b1 <= b2 then the total
\* overall of the result with budget b2 is at least the total with budget b1.
C11_BudgetMonotone ==
    Solved =>
        \A b1 \in BudgetInputs :
            b1 <= budget_remaining =>
                \A t1 \in TotalsWithBudget(b1) : t1 <= SumOverall(result)

\* C11 witness: a smaller budget that is infeasible (total 0) and another
\* smaller budget that already gives the same positive total.
C11_Witness ==
    /\ Solved
    /\ SumOverall(result) > 0
    /\ \E b1, b0 \in BudgetInputs :
          /\ b0 < b1 /\ b1 < budget_remaining
          /\ TotalsWithBudget(b0) = {0}
          /\ TotalsWithBudget(b1) = {SumOverall(result)}

\* ---------------------------------------------------------------------
\* Marginal value of recommend_max_bid (specification BidSpec)
\* ---------------------------------------------------------------------
\* no k-subset of the pool is within the budget and meets the roster's
\* bowling quota
SubCallInfeasible(pool, roster, budget, k) ==
    ~\E x \in SUBSET pool :
        /\ Cardinality(x) = k
        /\ Cardinality(x) * BASE_PRICE <= budget
        /\ Cardinality({p \in roster : p.bowling >= 4}) < 6
              => Cardinality({p \in x : p.bowling >= 4})
                     >= 6 - Cardinality({p \in roster : p.bowling >= 4})

BaselineInfeasible ==
    SubCallInfeasible(others_of(player, unsold_players), my_squad,
                      budget_remaining, slots_left)

BoostedInfeasible ==
    SubCallInfeasible(others_of(player, unsold_players), my_squad \cup {player},
                      budget_remaining - BASE_PRICE, slots_left - 1)

\* C12: marginal_value is max(0, boosted - baseline), a side whose optimizer
\* sub-call is infeasible contributing 0; so marginal_value is never negative,
\* and a recommendation is returned also when a sub-call is infeasible.
C12_MarginalValueClamped ==
    /\ (call = "recommend_max_bid" /\ pc = "called") =>
          recommend_max_bid(player, my_squad, unsold_players,
                            budget_remaining, slots_left) # {}
    /\ Recommended =>
          /\ result.marginal_value
                = Max(0, result.boosted_ovr - result.baseline_ovr)
          /\ result.marginal_value >= 0
          /\ BaselineInfeasible => result.baseline_ovr = 0
          /\ BoostedInfeasible => result.boosted_ovr = 0
          /\ result.recommended_max >= BASE_PRICE

\* C12 witness: the boosted sub-call is infeasible while the baseline one is
\* not, so the difference is negative and marginal_value is clamped to 0.
C12_Witness ==
    /\ Recommended
    /\ slots_left >= 2
    /\ BoostedInfeasible
    /\ ~BaselineInfeasible
    /\ result.baseline_ovr > 0
    /\ result.boosted_ovr = 0
    /\ result.marginal_value = 0

\* the other side: only the baseline sub-call is infeasible
BaselineOnlyInfeasible ==
    /\ Recommended
    /\ BaselineInfeasible
    /\ ~BoostedInfeasible
    /\ result.baseline_ovr = 0
    /\ result.marginal_value > 0

\* ---------------------------------------------------------------------
\* Specification CompeteSpec: one call of estimate_competition, the rival
\* teams part-way through the auction
\* ---------------------------------------------------------------------
MaxRivalPool == 8

\* the players still in the pool, in the order they join the input pools
RivalPoolOrder == <<28, 12, 7, 2, 10, 8, 6, 11, 14, 17>>

\* what each rival has bought so far, in the order of its purchases
BoughtOrder(team_name) ==
    CASE team_name = "Saurav" -> <<4, 22, 21, 30, 32, 24, 19, 3, 5>>
      [] team_name = "Vishal" -> <<1, 13, 9, 26, 29, 25, 15, 16, 18>>
      [] team_name = "Pravakar" -> <<20, 23, 27, 31, 33, 34, 35, 36>>
      [] OTHER -> <<>>

\* (players bought, budget_left, slots_left) of a rival.  On these budgets
\* the exact arithmetic gives what the code's floating-point arithmetic gives.
RivalViews ==
    {<<0, 100, 9>>, <<4, 50, 5>>, <<8, 50, 1>>, <<8, 10, 1>>, <<7, 6, 2>>,
     <<8, 30, 0>>, <<8, 4, 1>>}

\* get_full_squad(tname) and the team's entry of build_all_teams_data
RivalView(team_name, v) ==
    [squad |-> get_pre_assigned_players(PLAYERS, team_name)
                   \cup {PLAYERS[BoughtOrder(team_name)[i]] : i \in 1..v[1]},
     budget_left |-> v[2],
     slots_left |-> v[3],
     budget_spent |-> BUDGET_PER_TEAM - v[2]]

RivalTeamsData ==
    {[t \in Range(TEAMS) |->
         CASE t = "Abhijeet" -> RivalView(t, <<0, BUDGET_PER_TEAM, AUCTION_SLOTS>>)
           [] t = "Saurav" -> RivalView(t, a)
           [] t = "Vishal" -> RivalView(t, b)
           [] OTHER -> RivalView(t, c)] :
        a \in RivalViews, b \in RivalViews, c \in RivalViews}

RivalPoolInputs ==
    {{PLAYERS[RivalPoolOrder[i]] : i \in 1..n} : n \in 1..MaxRivalPool}

CompeteInit ==
    /\ AppIdle
    /\ SolverWorks
    /\ unsold_players \in RivalPoolInputs
    /\ player \in unsold_players
    /\ my_squad = get_pre_assigned_players(PLAYERS, "Abhijeet")
    /\ budget_remaining = BUDGET_PER_TEAM
    /\ slots_left = AUCTION_SLOTS
    /\ all_teams_data \in RivalTeamsData
    /\ call = "estimate_competition"
    /\ pc = "called"
    /\ result = <<>>

EstimateCompetition ==
    /\ call = "estimate_competition"
    /\ pc = "called"
    /\ result' = estimate_competition(player, all_teams_data, unsold_players)
    /\ pc' = "returned"
    /\ UNCHANGED <<auction_log, player_data, engine_inputs>>

CompeteNext == EstimateCompetition

CompeteSpec == CompeteInit /\ [][CompeteNext]_vars

\* ---------------------------------------------------------------------
\* Properties of estimate_competition (specification CompeteSpec)
\* ---------------------------------------------------------------------
Estimated == call = "estimate_competition" /\ pc = "returned"

\* budget_left - (slots_left - 1) * BASE_PRICE, budget_left on the last slot
AffordabilityCap(c) ==
    IF c.slots_left = 1 THEN c.budget_left
    ELSE c.budget_left - (c.slots_left - 1) * BASE_PRICE

\* C13: every listed competitor's estimated max bid lies between the base
\* price and the competitor's affordability cap, also when the cap is below
\* the base price.
C13_EstimateWithinCap ==
    Estimated =>
        \A i \in 1..Len(result) :
            /\ BASE_PRICE <= result[i].estimated_max_bid
            /\ result[i].estimated_max_bid <= AffordabilityCap(result[i])

\* the part of C13 the code keeps: the base price always, the cap when it
\* is not below the base price
EstimateWithinCapAboveBase ==
    Estimated =>
        \A i \in 1..Len(result) :
            /\ BASE_PRICE <= result[i].estimated_max_bid
            /\ AffordabilityCap(result[i]) >= BASE_PRICE
                  => result[i].estimated_max_bid <= AffordabilityCap(result[i])

\* the competitor's desire comes from the tier-1 attraction alone
TierOneDesireOnly(c) ==
    /\ player.tier = 1
    /\ c.reasons = <<<<"Elite player (Tier 1)">>>>

MayCompete(t) ==
    /\ t # "Abhijeet"
    /\ all_teams_data[t].slots_left > 0
    /\ all_teams_data[t].budget_left >= BASE_PRICE

\* C15: the returned list never holds the own team, a team without a slot or
\* a team short of the base price; it holds every other team whose desire is
\* positive, once, in non-increasing order of desire score.
C15_CompetitorsListed ==
    Estimated =>
        /\ \A i \in 1..Len(result) :
              /\ result[i].team \in Range(TEAMS)
              /\ MayCompete(result[i].team)
              /\ result[i].desire_score > 0
              /\ result[i].budget_left = all_teams_data[result[i].team].budget_left
              /\ result[i].slots_left = all_teams_data[result[i].team].slots_left
        /\ \A t \in Range(TEAMS) :
              (MayCompete(t)
                   /\ competitor_desire(player, all_teams_data[t],
                                        unsold_players) > 0)
                  => Cardinality({i \in 1..Len(result) : result[i].team = t}) = 1
        /\ \A i, j \in 1..Len(result) :
              i < j => result[i].desire_score >= result[j].desire_score

\* C15 witness: one rival skipped, one left out for want of desire, and the
\* two listed ones in the opposite of the order of TEAMS.
C15_Witness ==
    /\ Estimated
    /\ Len(result) = 2
    /\ result[1].team = "Pravakar"
    /\ result[2].team = "Saurav"
    /\ result[1].desire_score > result[2].desire_score
    /\ ~MayCompete("Vishal")

\* a rival that may compete but has no desire for the player is not listed
NoDesireNotListed ==
    /\ Estimated
    /\ \E t \in Range(TEAMS) :
          /\ MayCompete(t)
          /\ competitor_desire(player, all_teams_data[t], unsold_players) = 0
          /\ \A i \in 1..Len(result) : result[i].team # t

\* ---------------------------------------------------------------------
\* Lists.  The engine is handed lists; the pool and the roster come from
\* list comprehensions over player_data, so they are in catalog (id) order.
\* ---------------------------------------------------------------------
AsList(S) ==
    [k \in 1..Cardinality(S) |->
        CHOOSE p \in S : Cardinality({q \in S : q.id < p.id}) = k - 1]

\* list.sort(key=lambda x: -keys[x]): the positions of the list in stable
\* descending order of their keys
StableDescOrder(keys) ==
    [k \in 1..Len(keys) |->
        CHOOSE i \in 1..Len(keys) :
            Cardinality({j \in 1..Len(keys) :
                            \/ keys[j] > keys[i]
                            \/ keys[j] = keys[i] /\ j < i}) = k - 1]

SortedDescBy(seq, keys) ==
    [k \in 1..Len(seq) |-> seq[StableDescOrder(keys)[k]]]

\* {**p, **extra}
Merge(p, extra) == extra @@ p

\* int(a / b) for b > 0: truncation towards zero
TruncDiv(a, b) == IF a >= 0 THEN a \div b ELSE 0 - ((0 - a) \div b)

\* the orders in which a Python set of strings may be iterated
IterationOrders(S) ==
    {f \in [1..Cardinality(S) -> S] :
        \A i, j \in 1..Cardinality(S) : i # j => f[i] # f[j]}

\* ---------------------------------------------------------------------
\* _player_value_score, in hundredths:
\*   round(overall * 0.4 * need_mult + bowl_bonus * 0.2 + tier_bonus * 0.1, 2)
\* ---------------------------------------------------------------------
player_value_score(p, squad_needs) ==
    (IF p.role \in squad_needs THEN 6 ELSE 4) * p.overall
    + (IF "need_bowlers" \in squad_needs /\ can_bowl(p)
       THEN 6 * p.bowling ELSE 0)
    + (CASE p.tier = 1 -> 20
         [] p.tier = 2 -> 10
         [] p.tier = 3 -> 3
         [] OTHER -> 0)

\* ---------------------------------------------------------------------
\* get_ranked_recommendations
\* ---------------------------------------------------------------------
\* score, in hundredths
recommendation_score(p, unsold, analysis, optimal_ids) ==
    player_value_score(p, analysis.role_needs)
    + (IF p.id \in optimal_ids THEN 500 ELSE 0)
    + (IF analysis.bowlers_needed > 0 /\ can_bowl(p)
       THEN analysis.bowlers_needed * 200 ELSE 0)
    + (IF p.role \in analysis.role_needs
       THEN Max(0, 300 - 30 * CountIf(unsold, LAMBDA u : u.role = p.role))
       ELSE 0)

\* the dict appended for p (verdict_detail is a fixed text per verdict)
ranked_entry(p, unsold, analysis, optimal_ids, bid_info) ==
    Merge(p, [score |-> recommendation_score(p, unsold, analysis, optimal_ids),
              in_optimal |-> p.id \in optimal_ids,
              recommended_max |-> bid_info.recommended_max,
              verdict |-> bid_info.verdict,
              marginal_value |-> bid_info.marginal_value])

RECURSIVE ranked_upto(_, _, _, _, _, _)
\* the lists the loop may have built after the first n pool players
ranked_upto(n, unsold, squad, budget, slots, optimal_ids) ==
    IF n = 0 THEN {<<>>}
    ELSE {Append(before,
                 ranked_entry(AsList(unsold)[n], unsold,
                              analyze_squad_needs(squad), optimal_ids, bid_info)) :
            before \in ranked_upto(n - 1, unsold, squad, budget, slots,
                                   optimal_ids),
            bid_info \in recommend_max_bid(AsList(unsold)[n], squad, unsold,
                                           budget, slots)}

get_ranked_recommendations_raises(unsold, squad, budget, slots) ==
    /\ ~(unsold = {} \/ slots <= 0)
    /\ \/ solve_optimal_squad_raises(unsold, squad, budget, slots)
       \/ \E p \in unsold :
             recommend_max_bid_raises(p, squad, unsold, budget, slots)

\* the lists get_ranked_recommendations may return
get_ranked_recommendations(unsold, squad, budget, slots) ==
    IF unsold = {} \/ slots <= 0 THEN {<<>>}
    ELSE {SortedDescBy(recs, [i \in 1..Len(recs) |-> recs[i].score]) :
            recs \in UNION {ranked_upto(Cardinality(unsold), unsold, squad,
                                        budget, slots, {q.id : q \in picks}) :
                              picks \in solve_optimal_squad(unsold, squad,
                                                            budget, slots)}}

\* ---------------------------------------------------------------------
\* _compute_budget_allocation
\* ---------------------------------------------------------------------
\* urgent_roles: the role needs in the set's iteration order, then the
\* bowling entry
urgent_roles_of(needs) ==
    {order \o (IF needs.bowlers_needed > 0
               THEN <<"Bowler/All-rounder (bowling)">> ELSE <<>>) :
        order \in IterationOrders(needs.role_needs \ {"need_bowlers"})}

\* the per_priority division is evaluated with a zero divisor
per_priority_raises(n_priority) == n_priority > 0 /\ n_priority = 0

allocation_for(urgent_roles, budget, slots) ==
    LET n_priority == Min(Len(urgent_roles), slots)
        n_filler == slots - n_priority
        priority_budget == budget - n_filler * BASE_PRICE
    IN  [i \in 1..slots |->
            IF i <= n_priority
            THEN [slot |-> i,
                  type |-> "Priority",
                  target_role |-> urgent_roles[i],
                  max_budget |->
                      Min(TruncDiv(priority_budget, n_priority),
                          budget - (slots - 1) * BASE_PRICE)]
            ELSE [slot |-> i,
                  type |-> "Value",
                  target_role |-> "Best available",
                  max_budget |-> BASE_PRICE + 3]]

compute_budget_allocation_raises(unsold, squad, budget, slots) ==
    /\ slots > 0
    /\ \E urgent_roles \in urgent_roles_of(analyze_squad_needs(squad)) :
          per_priority_raises(Min(Len(urgent_roles), slots))

\* the plans _compute_budget_allocation may return
compute_budget_allocation(unsold, squad, budget, slots) ==
    IF slots <= 0 THEN {<<>>}
    ELSE {allocation_for(urgent_roles, budget, slots) :
            urgent_roles \in urgent_roles_of(analyze_squad_needs(squad))}

\* ---------------------------------------------------------------------
\* build_best_team_snapshot.  Averages are in tenths, value scores and
\* acquisition probabilities in hundredths.
\* ---------------------------------------------------------------------
\* variant: the average taken whether or not the list is empty
average_raises_unguarded(guard, n) == n = 0

\* round(total / len(xs), 1) if xs else 0: the division is evaluated with
\* a zero divisor
average_raises(guard, n) == guard /\ n = 0

\* the values of round(total / n, 1) if guard else 0
averages_of(guard, total, n) ==
    IF guard /\ n # 0 THEN RoundTies(total, n) ELSE {0}

\* the dicts that may be appended to scored_players for p
scored_player(p, squad, unsold, teams_data) ==
    LET comp == estimate_competition(p, teams_data, unsold)
        competing_teams ==
            Cardinality({i \in 1..Len(comp) : comp[i].desire_score > 30})
        acq_prob == Max(10, 100 - competing_teams * 25)
        predicted == predict_auction_price(p, teams_data, unsold)
        value_score ==
            player_value_score(p, analyze_squad_needs(squad).role_needs)
    IN  {Merge(p, [acq_probability |-> acq_prob,
                   estimated_cost |-> predicted.predicted_price,
                   value_score |-> value_score,
                   expected_value |-> expected_value,
                   competition_level |-> predicted.competition_level]) :
            expected_value \in RoundTies(value_score * acq_prob, 100)}

RECURSIVE scored_upto(_, _, _, _)
\* scored_players after the first n pool players
scored_upto(n, squad, unsold, teams_data) ==
    IF n = 0 THEN {<<>>}
    ELSE {Append(before, scored) :
            before \in scored_upto(n - 1, squad, unsold, teams_data),
            scored \in scored_player(AsList(unsold)[n], squad, unsold,
                                     teams_data)}

\* scored_players after the sort by descending expected_value
scored_players_of(squad, unsold, teams_data) ==
    {SortedDescBy(scored, [i \in 1..Len(scored) |-> scored[i].expected_value]) :
        scored \in scored_upto(Cardinality(unsold), squad, unsold, teams_data)}

\* variant: no base price kept back for the slots still to fill
pick_affordable_without_reserve(cost, remaining_budget, remaining_slots) ==
    cost <= remaining_budget

\* p["estimated_cost"] <= remaining_budget - (remaining_slots - 1) * BASE_PRICE
pick_affordable(estimated_cost, remaining_budget, remaining_slots) ==
    estimated_cost <= remaining_budget - (remaining_slots - 1) * BASE_PRICE

RECURSIVE realistic_loop(_, _, _, _, _)
\* the loop over scored_players from position i on, with the picks, the
\* remaining budget and the remaining slots so far
realistic_loop(i, scored, picks, remaining_budget, remaining_slots) ==
    IF i > Len(scored) \/ remaining_slots <= 0 THEN picks
    ELSE IF pick_affordable(scored[i].estimated_cost, remaining_budget,
                            remaining_slots)
         THEN realistic_loop(i + 1, scored, Append(picks, scored[i]),
                             remaining_budget - scored[i].estimated_cost,
                             remaining_slots - 1)
         ELSE realistic_loop(i + 1, scored, picks, remaining_budget,
                             remaining_slots)

\* priority_targets
priority_targets_of(scored, optimal_picks) ==
    [i \in 1..Min(10, Len(scored)) |->
        [name |-> scored[i].name,
         role |-> scored[i].role,
         tier |-> scored[i].tier,
         overall |-> scored[i].overall,
         estimated_cost |-> scored[i].estimated_cost,
         competition |-> scored[i].competition_level,
         acq_probability |-> scored[i].acq_probability,
         in_optimal |-> scored[i].id \in {op.id : op \in optimal_picks},
         value_score |-> scored[i].value_score]]

\* the snapshots returned for one outcome of the solver, of the allocation
\* and of the scoring
snapshots_for(squad, budget, slots, optimal_picks, budget_allocation, scored) ==
    LET current_ovr == SumOverall(squad)
        best_full == squad \cup optimal_picks
        best_ovr == IF optimal_picks # {} THEN SumOverall(best_full)
                    ELSE current_ovr
        realistic_picks == realistic_loop(1, scored, <<>>, budget, slots)
        realistic_full == squad \cup Range(realistic_picks)
        realistic_ovr == SumOverall(realistic_full)
    IN  {[current_squad |-> squad,
          current_ovr |-> current_ovr,
          current_avg |-> current_avg,
          optimal_picks |-> optimal_picks,
          best_possible_squad |-> best_full,
          best_possible_ovr |-> best_ovr,
          best_possible_avg |-> best_avg,
          realistic_picks |-> realistic_picks,
          realistic_squad |-> realistic_full,
          realistic_ovr |-> realistic_ovr,
          realistic_avg |-> realistic_avg,
          priority_targets |-> priority_targets_of(scored, optimal_picks),
          budget_allocation |-> budget_allocation,
          slots_left |-> slots,
          budget_remaining |-> budget] :
            current_avg \in
                averages_of(squad # {}, current_ovr, Cardinality(squad)),
            best_avg \in
                IF optimal_picks # {}
                THEN averages_of(TRUE, best_ovr, Cardinality(best_full))
                ELSE averages_of(squad # {}, current_ovr, Cardinality(squad)),
            realistic_avg \in
                averages_of(realistic_full # {}, realistic_ovr,
                            Cardinality(realistic_full))}

\* an exception leaves build_best_team_snapshot
build_best_team_snapshot_raises(squad, unsold, budget, slots, teams_data) ==
    \/ average_raises(squad # {}, Cardinality(squad))
    \/ solve_optimal_squad_raises(unsold, squad, budget, slots)
    \/ \E picks \in solve_optimal_squad(unsold, squad, budget, slots) :
          average_raises(picks # {}, Cardinality(squad \cup picks))
    \/ \E scored \in scored_players_of(squad, unsold, teams_data) :
          \A realistic_full \in
                 {squad \cup Range(realistic_loop(1, scored, <<>>, budget,
                                                   slots))} :
              average_raises(realistic_full # {}, Cardinality(realistic_full))
    \/ compute_budget_allocation_raises(unsold, squad, budget, slots)

\* the snapshots build_best_team_snapshot may return
build_best_team_snapshot(squad, unsold, budget, slots, teams_data) ==
    UNION {snapshots_for(squad, budget, slots, optimal_picks,
                         budget_allocation, scored) :
             optimal_picks \in solve_optimal_squad(unsold, squad, budget, slots),
             budget_allocation \in
                 compute_budget_allocation(unsold, squad, budget, slots),
             scored \in scored_players_of(squad, unsold, teams_data)}

\* ---------------------------------------------------------------------
\* Specification EngineSpec: one call of any engine function, on inputs
\* that include the degenerate ones (an empty pool, an empty roster, no
\* slot, a negative budget or slot count, a candidate outside the pool)
\* and with a library solver that may fail or raise
\* ---------------------------------------------------------------------
EngineCalls ==
    {"analyze_squad_needs", "solve_optimal_squad", "recommend_max_bid",
     "get_ranked_recommendations", "estimate_competition",
     "predict_auction_price", "build_best_team_snapshot",
     "compute_budget_allocation"}

SolverOutcomes == {"optimal", "failure", "exception"}

\* pools: the first 0..MaxPool players of PoolOrder
EnginePools == {{PLAYERS[PoolOrder[i]] : i \in 1..n} : n \in 0..MaxPool}

\* rosters of the user and of rivals part-way through the auction
EngineRosters ==
    SquadInputs
        \cup {RivalView(t, v).squad : t \in {"Saurav", "Pravakar"}, v \in RivalViews}

EngineBudgets == {0 - 1, 0, BASE_PRICE, 2 * BASE_PRICE, MaxBudget}

EngineSlots == (0 - 1)..MaxSlots

\* every rival in the same position
EngineTeamsData ==
    {[t \in Range(TEAMS) |->
         IF t = "Abhijeet" THEN TeamView(t, BUDGET_PER_TEAM, AUCTION_SLOTS)
         ELSE TeamView(t, v[1], v[2])] : v \in CompetitorViews}

\* for the snapshot: rivals fresh, nearly done, or out of slots
SnapshotTeamsData ==
    {td \in EngineTeamsData :
        <<td["Saurav"].budget_left, td["Saurav"].slots_left>>
            \in {<<100, 9>>, <<14, 2>>, <<30, 0>>}}

\* a candidate of the pool, or one that is not in it
EngineCandidates(pool) == pool \cup {PLAYERS[17]}

EngineInit ==
    /\ AppIdle
    /\ call \in EngineCalls
    /\ pc = "called"
    /\ result = <<>>
    /\ unsold_players \in
          IF call = "analyze_squad_needs" THEN {{}} ELSE EnginePools
    /\ my_squad \in
          IF call = "analyze_squad_needs" THEN EngineRosters
          ELSE IF call \in {"estimate_competition", "predict_auction_price"}
               THEN {get_pre_assigned_players(PLAYERS, "Abhijeet")}
               ELSE SquadInputs
    /\ budget_remaining \in
          IF call \in {"analyze_squad_needs", "estimate_competition",
                       "predict_auction_price"}
          THEN {BUDGET_PER_TEAM} ELSE EngineBudgets
    /\ slots_left \in
          IF call \in {"analyze_squad_needs", "estimate_competition",
                       "predict_auction_price"}
          THEN {AUCTION_SLOTS} ELSE EngineSlots
    /\ player \in
          IF call \in {"recommend_max_bid", "estimate_competition",
                       "predict_auction_price"}
          THEN EngineCandidates(unsold_players) ELSE {NoPlayer}
    /\ all_teams_data \in
          IF call \in {"estimate_competition", "predict_auction_price"}
          THEN EngineTeamsData
          ELSE IF call = "build_best_team_snapshot" THEN SnapshotTeamsData
               ELSE {<<>>}
    /\ solver \in
          IF call \in {"solve_optimal_squad", "recommend_max_bid",
                       "get_ranked_recommendations", "build_best_team_snapshot"}
          THEN SolverOutcomes ELSE {"optimal"}

AnalyzeSquadNeeds ==
    /\ call = "analyze_squad_needs"
    /\ pc = "called"
    /\ result' = analyze_squad_needs(my_squad)
    /\ pc' = "returned"
    /\ UNCHANGED <<auction_log, player_data, engine_inputs>>

GetRankedRecommendations ==
    /\ call = "get_ranked_recommendations"
    /\ pc = "called"
    /\ IF get_ranked_recommendations_raises(unsold_players, my_squad,
                                            budget_remaining, slots_left)
       THEN result' = "Exception" /\ pc' = "raised"
       ELSE /\ result' \in get_ranked_recommendations(unsold_players, my_squad,
                                                       budget_remaining,
                                                       slots_left)
            /\ pc' = "returned"
    /\ UNCHANGED <<auction_log, player_data, engine_inputs>>

ComputeBudgetAllocation ==
    /\ call = "compute_budget_allocation"
    /\ pc = "called"
    /\ IF compute_budget_allocation_raises(unsold_players, my_squad,
                                           budget_remaining, slots_left)
       THEN result' = "ZeroDivisionError" /\ pc' = "raised"
       ELSE /\ result' \in compute_budget_allocation(unsold_players, my_squad,
                                                      budget_remaining,
                                                      slots_left)
            /\ pc' = "returned"
    /\ UNCHANGED <<auction_log, player_data, engine_inputs>>

BuildBestTeamSnapshot ==
    /\ call = "build_best_team_snapshot"
    /\ pc = "called"
    /\ IF build_best_team_snapshot_raises(my_squad, unsold_players,
                                          budget_remaining, slots_left,
                                          all_teams_data)
       THEN result' = "Exception" /\ pc' = "raised" /\ my_squad' = my_squad
       ELSE /\ result' \in build_best_team_snapshot(my_squad, unsold_players,
                                                     budget_remaining,
                                                     slots_left, all_teams_data)
            /\ pc' = "returned"
            /\ my_squad' = roster_after_concat(my_squad, result'.optimal_picks)
    /\ UNCHANGED <<auction_log, player_data, unsold_players, budget_remaining,
                   slots_left, player, all_teams_data, call, solver>>

EngineNext ==
    \/ AnalyzeSquadNeeds
    \/ SolveOptimalSquad
    \/ RecommendMaxBid
    \/ GetRankedRecommendations
    \/ EstimateCompetition
    \/ PredictAuctionPrice
    \/ BuildBestTeamSnapshot
    \/ ComputeBudgetAllocation

EngineSpec == EngineInit /\ [][EngineNext]_vars

\* ---------------------------------------------------------------------
\* Properties of the engine on degenerate inputs and with a failing solver
\* (specification EngineSpec)
\* ---------------------------------------------------------------------
Finished == pc # "called"

Degenerate == unsold_players = {} \/ slots_left <= 0

\* C16: with an empty pool or no slot to fill every engine function returns
\* without error: solve_optimal_squad and get_ranked_recommendations the
\* empty list, _compute_budget_allocation an empty plan for zero slots,
\* recommend_max_bid a recommendation with marginal_value 0, and
\* build_best_team_snapshot a snapshot without optimal or realistic picks,
\* an empty roster included.
C16_DegenerateInputsSafe ==
    (Finished /\ Degenerate) =>
        /\ pc = "returned"
        /\ call = "solve_optimal_squad" => result = {}
        /\ call = "get_ranked_recommendations" => result = <<>>
        /\ (call = "compute_budget_allocation" /\ slots_left <= 0)
              => result = <<>>
        /\ call = "recommend_max_bid" => result.marginal_value = 0
        /\ call = "build_best_team_snapshot" =>
              /\ result.optimal_picks = {}
              /\ result.realistic_picks = <<>>
              /\ result.best_possible_ovr = result.current_ovr
              /\ result.realistic_ovr = result.current_ovr

\* C16 witness: a snapshot for an empty roster and an empty pool, with
\* slots to fill: nothing is divided by the empty roster's size.
C16_Witness ==
    /\ call = "build_best_team_snapshot"
    /\ pc = "returned"
    /\ my_squad = {}
    /\ unsold_players = {}
    /\ slots_left > 0
    /\ result.current_avg = 0
    /\ result.realistic_avg = 0
    /\ result.budget_allocation # <<>>

ContractViolation ==
    \/ budget_remaining < 0
    \/ slots_left < 0
    \/ call = "recommend_max_bid" /\ player \notin unsold_players

\* C17: solve_optimal_squad or recommend_max_bid called with a negative
\* budget, a negative slot count or (recommend_max_bid) a candidate that is
\* not in the pool ends in an error at the call boundary, not in a pick set
\* or a numeric recommendation.
C17_ContractViolationsRaise ==
    (Finished /\ call \in {"solve_optimal_squad", "recommend_max_bid"}
         /\ ContractViolation)
        => pc = "raised"

\* what the code does instead: it returns, a recommendation of at least the
\* base price for recommend_max_bid
ContractViolationsReturn ==
    (Finished /\ solver = "optimal"
         /\ call \in {"solve_optimal_squad", "recommend_max_bid"}
         /\ ContractViolation)
        => /\ pc = "returned"
           /\ call = "recommend_max_bid" => result.recommended_max >= BASE_PRICE

SolverBroken == solver \in {"failure", "exception"}

\* C18: when the solver raises or reports failure, solve_optimal_squad
\* returns the empty list, as for an infeasible program, no exception reaches
\* the caller, and recommend_max_bid, get_ranked_recommendations and
\* build_best_team_snapshot still return a result.
C18_SolverFailureIsInfeasibility ==
    (Finished /\ SolverBroken) =>
        /\ pc = "returned"
        /\ call = "solve_optimal_squad" => result = {}
        /\ call = "recommend_max_bid" =>
              /\ result.baseline_ovr = 0
              /\ result.boosted_ovr = 0
              /\ result.recommended_max >= BASE_PRICE
        /\ call = "get_ranked_recommendations" =>
              /\ Len(result) = IF slots_left <= 0 THEN 0
                               ELSE Cardinality(unsold_players)
              /\ \A i \in 1..Len(result) : ~result[i].in_optimal
        /\ call = "build_best_team_snapshot" =>
              /\ result.optimal_picks = {}
              /\ result.best_possible_squad = my_squad

\* C18 witness: the solver raises on a program that has a solution, and the
\* snapshot is returned, with realistic picks and without optimal ones.
C18_Witness ==
    /\ call = "build_best_team_snapshot"
    /\ pc = "returned"
    /\ solver = "exception"
    /\ MilpFeasible(unsold_players, my_squad, budget_remaining, slots_left) # {}
    /\ slots_left > 0
    /\ result.optimal_picks = {}
    /\ result.realistic_picks # <<>>

\* the solver reports failure on a program that has a solution
SolverFailureSeen ==
    /\ call = "solve_optimal_squad"
    /\ pc = "returned"
    /\ solver = "failure"
    /\ MilpFeasible(unsold_players, my_squad, budget_remaining, slots_left) # {}
    /\ slots_left > 0
    /\ result = {}

\* C20: analyze_squad_needs reports the numbers of roster players that can
\* bowl and that are Batsman, Bowler and All-rounder (so each sum is at most
\* the roster size), bowlers_needed = max(0, 6 - can-bowl), and a need set
\* with need_bowlers iff can-bowl < 6, Batsman iff batsmen < 3, Bowler iff
\* bowlers < 2, All-rounder iff all-rounders < 2, and nothing else.
C20_NeedsReport ==
    (call = "analyze_squad_needs" /\ pc = "returned") =>
        /\ result.bowlers_who_can_bowl
              = Cardinality({p \in my_squad : p.bowling >= 4})
        /\ result.bat_count = Cardinality({p \in my_squad : p.role = "Batsman"})
        /\ result.bowl_count = Cardinality({p \in my_squad : p.role = "Bowler"})
        /\ result.ar_count
              = Cardinality({p \in my_squad : p.role = "All-rounder"})
        /\ result.bat_count + result.bowl_count + result.ar_count
              <= Cardinality(my_squad)
        /\ result.bowlers_who_can_bowl <= Cardinality(my_squad)
        /\ result.bowlers_needed
              = (IF result.bowlers_who_can_bowl >= 6 THEN 0
                 ELSE 6 - result.bowlers_who_can_bowl)
        /\ result.role_needs
              \subseteq {"need_bowlers", "Batsman", "Bowler", "All-rounder"}
        /\ "need_bowlers" \in result.role_needs
              <=> result.bowlers_who_can_bowl < 6
        /\ "Batsman" \in result.role_needs <=> result.bat_count < 3
        /\ "Bowler" \in result.role_needs <=> result.bowl_count < 2
        /\ "All-rounder" \in result.role_needs <=> result.ar_count < 2

\* C20 witness: a roster with exactly two bowlers and enough all-rounders,
\* still short of batsmen and of bowling.
C20_Witness ==
    /\ call = "analyze_squad_needs"
    /\ pc = "returned"
    /\ result.bowl_count = 2
    /\ result.ar_count >= 2
    /\ result.bat_count < 3
    /\ result.bowlers_who_can_bowl < 6
    /\ result.role_needs = {"need_bowlers", "Batsman"}

\* rosters on the other side of the thresholds
EnoughBatsmenSeen ==
    /\ call = "analyze_squad_needs"
    /\ pc = "returned"
    /\ result.bat_count >= 3
    /\ "Batsman" \notin result.role_needs

EnoughBowlingSeen ==
    /\ call = "analyze_squad_needs"
    /\ pc = "returned"
    /\ result.bowlers_who_can_bowl > 6
    /\ result.bowlers_needed = 0
    /\ "need_bowlers" \notin result.role_needs

\* ---------------------------------------------------------------------
\* Specification VerdictSpec: one call of recommend_max_bid, for pools whose
\* overall values put the marginal value on and around the verdict thresholds
\* ---------------------------------------------------------------------
MaxVerdictPool == 5

\* catalog ids: 6 over 10 and 24 is worth exactly 3.0 more, 14 over 24 and 27
\* exactly 1.0 more
VerdictPoolOrder == <<6, 10, 24, 14, 27, 32, 7>>

VerdictPools ==
    SUBSET {PLAYERS[VerdictPoolOrder[i]] : i \in 1..MaxVerdictPool} \ {{}}

VerdictBudgets == {BASE_PRICE, 2 * BASE_PRICE, MaxBudget}

VerdictInit ==
    /\ AppIdle
    /\ SolverWorks
    /\ unsold_players \in VerdictPools
    /\ player \in unsold_players
    /\ my_squad \in SquadInputs
    /\ budget_remaining \in VerdictBudgets
    /\ slots_left \in 1..MaxSlots
    /\ all_teams_data = <<>>
    /\ call = "recommend_max_bid"
    /\ pc = "called"
    /\ result = <<>>

VerdictNext == RecommendMaxBid

VerdictSpec == VerdictInit /\ [][VerdictNext]_vars

Verdicts ==
    {"MUST BUY", "GOOD BUY", "NEED-BASED BUY", "BOWLING NEED",
     "SKIP / BASE ONLY"}

\* the first matching rule, read on the returned marginal_value (tenths)
FirstMatchingVerdict ==
    LET needs == analyze_squad_needs(my_squad)
    IN  IF result.marginal_value >= 30 THEN "MUST BUY"
        ELSE IF result.marginal_value >= 10 THEN "GOOD BUY"
        ELSE IF player.role \in needs.role_needs THEN "NEED-BASED BUY"
        ELSE IF player.bowling >= 4 /\ needs.bowlers_who_can_bowl < 6
             THEN "BOWLING NEED"
        ELSE "SKIP / BASE ONLY"

\* C21: the verdict of recommend_max_bid is the first matching rule in the
\* order marginal value >= 3 MUST BUY, marginal value >= 1 GOOD BUY, role in
\* the unmet needs NEED-BASED BUY, can bowl and roster short of bowling
\* BOWLING NEED, otherwise SKIP / BASE ONLY; exactly one verdict is returned.
C21_VerdictFirstMatch ==
    Recommended =>
        /\ result.verdict \in Verdicts
        /\ result.verdict = FirstMatchingVerdict

\* away from the two thresholds the verdict is the first matching rule
VerdictFirstMatchOffThreshold ==
    (Recommended /\ result.marginal_value \notin {10, 30}) =>
        result.verdict = FirstMatchingVerdict

\* a marginal value of exactly 3.0 reported with the verdict of the rule below
ThresholdReportedBelow ==
    /\ Recommended
    /\ result.marginal_value = 30
    /\ result.verdict = "GOOD BUY"

SnapshotWithPicksSeen ==
    /\ call = "build_best_team_snapshot"
    /\ pc = "returned"
    /\ my_squad # {}
    /\ result.optimal_picks # {}
    /\ result.optimal_picks \cap my_squad = {}
    /\ result.realistic_picks # <<>>

\* ---------------------------------------------------------------------
\* src/app.py tab8: rating edits.  Specification RatingSpec: the two save
\* buttons, on a session with and without recorded sales
\* ---------------------------------------------------------------------
\* variant: the tier not recomputed
recalc_player_keeps_tier(p) ==
    [p EXCEPT !.role = classify_role(p), !.overall = compute_overall(p)]

\* recalc_player: role, overall and tier recomputed from the record
recalc_player(p) ==
    [p EXCEPT !.role = classify_role(p),
              !.overall = compute_overall(p),
              !.tier = classify_tier(p)]

\* player["batting"], ["bowling"], ["fielding"] assigned
with_ratings(p, ratings) ==
    [p EXCEPT !.batting = ratings[1], !.bowling = ratings[2],
              !.fielding = ratings[3]]

ratings_of(p) == <<p.batting, p.bowling, p.fielding>>

\* the players whose ratings the modelled user edits: a sold and an unsold
\* auction player, a captain and a vice-captain
EditedIds == {3, 14, 37, 42}

\* the ratings the modelled user enters (editor cells and sliders take whole
\* numbers 0..10): overall 0.0, 3.4, 5.8 and 10.0, a batsman, a bowler and
\* two all-rounders
RatingInputs == {<<0, 0, 0>>, <<3, 4, 3>>, <<7, 7, 1>>, <<10, 10, 10>>}

\* an edited table: the rows of EditedIds carry entered or current ratings,
\* every other row its current ratings
EditedTables(pdata) ==
    {[i \in 1..Len(pdata) |->
         IF pdata[i].id \in EditedIds THEN entered[pdata[i].id]
         ELSE ratings_of(pdata[i])] :
        entered \in [EditedIds -> RatingInputs \cup {<<0 - 1>>}]}

\* the row as the save loop reads it: <<-1>> marks a row left as it was
row_of(edited, pdata, i) ==
    IF edited[i] = <<0 - 1>> THEN ratings_of(pdata[i]) ELSE edited[i]

\* "Save All Rating Changes": every row that differs from the record is
\* written to it and the record recalculated
SaveAllRatingChanges ==
    /\ call = "none"
    /\ \E edited \in EditedTables(player_data) :
          player_data' =
              [i \in 1..Len(player_data) |->
                  IF ratings_of(player_data[i]) # row_of(edited, player_data, i)
                  THEN recalc_player(
                           with_ratings(player_data[i],
                                        row_of(edited, player_data, i)))
                  ELSE player_data[i]]
    /\ UNCHANGED <<auction_log, engine_vars>>

\* "Save This Player": the slider values written to the selected record,
\* which is recalculated
SaveThisPlayer ==
    /\ call = "none"
    /\ \E sel \in {i \in 1..Len(player_data) : player_data[i].id \in EditedIds} :
       \E ratings \in RatingInputs :
          player_data' =
              [player_data EXCEPT
                  ![sel] = recalc_player(with_ratings(player_data[sel], ratings))]
    /\ UNCHANGED <<auction_log, engine_vars>>

\* sales recorded before the edits: none, or players 3 and 17
RecordedSales ==
    {<<>>,
     DictSet(DictSet(<<>>, 3, "Abhijeet", 12), 17, "Saurav", BASE_PRICE)}

RatingInit ==
    /\ auction_log \in RecordedSales
    /\ player_data = PLAYERS
    /\ EngineIdle

RatingNext == SaveAllRatingChanges \/ SaveThisPlayer

RatingSpec == RatingInit /\ [][RatingNext]_vars

\* role, overall and tier are those of the current ratings; captains and
\* vice-captains are tier 1 with their forced role; ids and names are the
\* catalog's
RatingsConsistent ==
    /\ Len(player_data) = Len(PLAYERS)
    /\ \A i \in 1..Len(player_data) :
          /\ player_data[i].role = classify_role(player_data[i])
          /\ player_data[i].overall = compute_overall(player_data[i])
          /\ player_data[i].tier = classify_tier(player_data[i])
          /\ player_data[i].tag \in {"Captain", "Vice-Captain"} =>
                /\ player_data[i].tier = 1
                /\ player_data[i].role = PLAYERS[i].forced_role
                /\ player_data[i].role = PLAYERS[i].role
          /\ player_data[i].id = PLAYERS[i].id
          /\ player_data[i].name = PLAYERS[i].name
          /\ player_data[i].tag = PLAYERS[i].tag
          /\ player_data[i].team = PLAYERS[i].team

\* C23: after any sequence of rating edits (bulk or single-player save) every
\* player's role, overall and tier are classify_role, compute_overall and
\* classify_tier of the current ratings, captains and vice-captains are still
\* tier 1 with their forced role, no id or name has changed, and the auction
\* log is unchanged by the edit.
C23_RatingEditsKeepIdentity ==
    /\ []RatingsConsistent
    /\ [][auction_log' = auction_log]_vars

\* C23 witness: with sales recorded, a captain has ratings that would be
\* tier 4, a sold player has become a tier-1 all-rounder, and an unsold
\* one a bowler.
C23_Witness ==
    /\ auction_log # <<>>
    /\ ratings_of(player_data[37]) = <<0, 0, 0>>
    /\ player_data[37].overall = 0
    /\ player_data[37].tier = 1
    /\ ratings_of(player_data[3]) = <<10, 10, 10>>
    /\ player_data[3].role = "All-rounder"
    /\ player_data[3].tier = 1
    /\ player_data[14].role = "Bowler"
    /\ player_data[14].tier = 4

\* ---------------------------------------------------------------------
\* The predicted price of predict_auction_price (specification PriceSpec)
\* ---------------------------------------------------------------------
\* the estimated max bids of the interested competitors; there are at most
\* three rivals, so competing_teams lists them all
ListedBids ==
    [i \in 1..Len(result.competing_teams) |->
        result.competing_teams[i].estimated_max_bid]

\* positions holding the highest bid, and the highest bid among the others
TopBidAt(i) == \A j \in 1..Len(ListedBids) : ListedBids[j] <= ListedBids[i]

SecondBidFrom(i) ==
    CHOOSE b \in {ListedBids[j] : j \in 1..Len(ListedBids) \ {i}} :
        \A j \in 1..Len(ListedBids) \ {i} : ListedBids[j] <= b

\* the tier multiplier in tenths: 1.4 / 1.2 / 1.0 / 0.9 for tiers 1 to 4
TierMultiplierTenths ==
    IF player.tier = 1 THEN 14
    ELSE IF player.tier = 2 THEN 12
    ELSE IF player.tier = 3 THEN 10
    ELSE 9

\* C24: predict_auction_price returns the base price, the Low label and the
\* range (base, base) when no competitor is interested; with two or more
\* interested competitors with bids b1 >= b2 it returns
\* max(base_price, floor(min(b1, b2 + 1) * m)), and with exactly one
\* max(base_price, floor(b1 * m)), m the tier multiplier.
C24_ClearingPrice ==
    Predicted =>
        /\ Len(ListedBids) = 0 =>
              /\ result.predicted_price = BASE_PRICE
              /\ result.competition_level = "Low"
              /\ result.price_range = <<BASE_PRICE, BASE_PRICE>>
        /\ Len(ListedBids) = 1 =>
              result.predicted_price
                  = Max(BASE_PRICE, (ListedBids[1] * TierMultiplierTenths) \div 10)
        /\ Len(ListedBids) >= 2 =>
              \A i \in 1..Len(ListedBids) :
                  TopBidAt(i) =>
                      result.predicted_price
                          = Max(BASE_PRICE,
                                (Min(ListedBids[i], SecondBidFrom(i) + 1)
                                    * TierMultiplierTenths) \div 10)

\* C24 witness: two competitors tie on the highest bid, so the cap at the
\* highest bid decides, for a tier-1 player.
C24_Witness ==
    /\ Predicted
    /\ Len(ListedBids) >= 2
    /\ \E i \in 1..Len(ListedBids) :
          /\ TopBidAt(i)
          /\ SecondBidFrom(i) = ListedBids[i]
          /\ result.predicted_price = (ListedBids[i] * 14) \div 10
    /\ player.tier = 1
    /\ result.predicted_price > BASE_PRICE

\* the other cases: nobody interested; one competitor; the second bid plus
\* one below the highest; a tier-4 player
NobodyInterestedSeen == Predicted /\ Len(ListedBids) = 0

OneCompetitorSeen ==
    /\ Predicted
    /\ Len(ListedBids) = 1
    /\ result.predicted_price > BASE_PRICE

SecondBidDecidesSeen ==
    /\ Predicted
    /\ Len(ListedBids) >= 2
    /\ \E i \in 1..Len(ListedBids) :
          TopBidAt(i) /\ SecondBidFrom(i) + 1 < ListedBids[i]

TierFourPricedSeen ==
    /\ Predicted
    /\ Len(ListedBids) >= 1
    /\ player.tier = 4
    /\ result.predicted_price > BASE_PRICE

\* ---------------------------------------------------------------------
\* The realistic pick loop of build_best_team_snapshot (specification
\* EngineSpec)
\* ---------------------------------------------------------------------
SnapshotReturned == call = "build_best_team_snapshot" /\ pc = "returned"

\* the Team Budget State the app hands over: the budget covers every slot
\* still to fill at the base price
BudgetCoversSlots ==
    slots_left >= 0 /\ budget_remaining >= BASE_PRICE * slots_left

RealisticPicks == result.realistic_picks

\* the estimated cost of the first k realistic picks
PickedCost(k) ==
    SumOver(1..k, [i \in 1..Len(RealisticPicks) |->
                       RealisticPicks[i].estimated_cost])

ReserveAfterEveryPick ==
    SnapshotReturned =>
        \A k \in 1..Len(RealisticPicks) :
            budget_remaining - PickedCost(k) >= BASE_PRICE * (slots_left - k)

ThreePicksSeen ==
    /\ SnapshotReturned
    /\ BudgetCoversSlots
    /\ Len(RealisticPicks) = 3
    /\ slots_left = 3

\* a candidate with the highest expected value is passed over for its price
\* and a later one is picked
DearCandidatePassedOver ==
    /\ SnapshotReturned
    /\ BudgetCoversSlots
    /\ Len(RealisticPicks) >= 1
    /\ result.priority_targets[1].name # RealisticPicks[1].name
    /\ result.priority_targets[1].estimated_cost
          > budget_remaining - (slots_left - 1) * BASE_PRICE

\* ---------------------------------------------------------------------
\* Specification CapSpec: the three hard affordability caps on one auction
\* state (the team overview's max_affordable, and the Live Bid Advisor's
\* recommend_max_bid and estimate_competition called on build_all_teams_data)
\* ---------------------------------------------------------------------
\* the auction players in the order the constructed logs sell them
CapSaleOrder ==
    <<1, 3, 4, 5, 9, 10, 11, 12, 13, 14, 15, 16, 17, 18, 19, 20, 21, 22, 23,
      24, 25, 26, 27, 29, 30, 31, 32, 33, 34, 35, 36, 8, 2, 6, 7, 28>>

\* who buys the k-th of them: Pravakar twice a round until full, the own
\* team last in every round
CapBuyers ==
    <<"Pravakar", "Vishal", "Pravakar", "Saurav", "Abhijeet", "Pravakar",
      "Vishal", "Pravakar", "Saurav", "Abhijeet", "Pravakar", "Vishal",
      "Pravakar", "Saurav", "Abhijeet", "Pravakar", "Vishal", "Pravakar",
      "Saurav", "Abhijeet", "Pravakar", "Vishal", "Saurav", "Abhijeet",
      "Vishal", "Saurav", "Abhijeet", "Vishal", "Saurav", "Abhijeet",
      "Vishal", "Saurav", "Abhijeet", "Vishal", "Saurav", "Abhijeet">>

\* what a team pays for its first, second, ... purchase: everything at
\* base, a dearer first purchase, a first purchase at the whole cap, and
\* steady spending down to the reserve
CapPrices ==
    {[c \in 1..AUCTION_SLOTS |-> BASE_PRICE],
     [c \in 1..AUCTION_SLOTS |-> IF c = 1 THEN 12 ELSE BASE_PRICE],
     [c \in 1..AUCTION_SLOTS |->
         IF c = 1 THEN BUDGET_PER_TEAM - (AUCTION_SLOTS - 1) * BASE_PRICE
         ELSE BASE_PRICE],
     [c \in 1..AUCTION_SLOTS |-> IF c <= 6 THEN 12 ELSE 8]}

\* the auction log after n recorded sales, each of a player not sold before
CapLog(n, prices) ==
    [k \in 1..n |->
        [pid |-> CapSaleOrder[k], team |-> CapBuyers[k],
         price |-> prices[Cardinality({j \in 1..k : CapBuyers[j] = CapBuyers[k]})]]]

\* the fewest recorded sales at which the advisor's optimizer is run here
MinAdvisorSales == 26

\* build_all_teams_data()
build_all_teams_data(pdata, log) ==
    [t \in Range(TEAMS) |->
        [squad |-> get_full_squad(pdata, log, t),
         budget_left |-> get_team_remaining(log, t),
         slots_left |-> AUCTION_SLOTS - get_auction_count(log, t),
         budget_spent |-> get_team_budget_spent(log, t)]]

CapInit ==
    /\ \E n \in 0..Len(CapSaleOrder), prices \in CapPrices :
           auction_log = CapLog(n, prices)
    /\ player_data = PLAYERS
    /\ SolverWorks
    /\ unsold_players = get_unsold_players(player_data, auction_log)
    /\ my_squad = get_full_squad(player_data, auction_log, "Abhijeet")
    /\ budget_remaining = get_team_remaining(auction_log, "Abhijeet")
    /\ slots_left = AUCTION_SLOTS - get_auction_count(auction_log, "Abhijeet")
    /\ all_teams_data = build_all_teams_data(player_data, auction_log)
    /\ call \in {"max_affordable", "recommend_max_bid", "estimate_competition"}
    /\ IF call = "max_affordable" THEN player = NoPlayer
       ELSE /\ player \in unsold_players
            /\ slots_left > 0
            /\ call = "recommend_max_bid" => Len(auction_log) >= MinAdvisorSales
    /\ pc = "called"
    /\ result = <<>>

\* for tname in TEAMS: ma = max_affordable(tname)
TeamOverview ==
    /\ call = "max_affordable"
    /\ pc = "called"
    /\ result' = [t \in Range(TEAMS) |-> max_affordable(auction_log, t)]
    /\ pc' = "returned"
    /\ UNCHANGED <<auction_log, player_data, engine_inputs>>

CapNext == TeamOverview \/ RecommendMaxBid \/ EstimateCompetition

CapSpec == CapInit /\ [][CapNext]_vars

\* r - (s - 1) * base_price when s > 1, and r when s <= 1
HardCap(r, s) == IF s > 1 THEN r - (s - 1) * BASE_PRICE ELSE r

CapsComputed == pc = "returned"

\* C26: for every team's remaining budget r and slots left s,
\* recommend_max_bid's hard_max, estimate_competition's per-competitor
\* hard_max and the app's max_affordable all equal r - (s - 1) * base_price
\* when s > 1 and r when s <= 1; the values the three calls return agree
\* with it.
C26_HardCapsAgree ==
    CapsComputed =>
        \A t \in Range(TEAMS) :
            LET r == all_teams_data[t].budget_left
                s == all_teams_data[t].slots_left
            IN  /\ max_affordable(auction_log, t) = HardCap(r, s)
                /\ recommend_hard_max(r, s) = HardCap(r, s)
                /\ competitor_hard_max(r, s) = HardCap(r, s)
                /\ call = "max_affordable" => result[t] = HardCap(r, s)
                /\ (call = "recommend_max_bid" /\ t = "Abhijeet") =>
                       result.hard_max = HardCap(r, s)
                /\ call = "estimate_competition" =>
                       \A i \in 1..Len(result) :
                           result[i].team = t =>
                               /\ result[i].budget_left = r
                               /\ result[i].slots_left = s
                               /\ result[i].estimated_max_bid
                                      <= Max(BASE_PRICE, HardCap(r, s))

\* the overview of an auction where one team is full, another has one slot
\* left and a third holds back a reserve that bites
C26_Witness ==
    /\ CapsComputed
    /\ call = "max_affordable"
    /\ \E t \in Range(TEAMS) : all_teams_data[t].slots_left = 0
    /\ \E t \in Range(TEAMS) :
           /\ all_teams_data[t].slots_left = 1
           /\ result[t] = all_teams_data[t].budget_left
    /\ \E t \in Range(TEAMS) :
           /\ all_teams_data[t].slots_left > 1
           /\ result[t] < all_teams_data[t].budget_left

\* the advisor's own cap with more than one slot to fill
AdvisorCapWithReserveSeen ==
    /\ CapsComputed
    /\ call = "recommend_max_bid"
    /\ slots_left > 1
    /\ result.hard_max = budget_remaining - (slots_left - 1) * BASE_PRICE

\* a competitor whose estimate is held down to its cap
CompetitorCappedSeen ==
    /\ CapsComputed
    /\ call = "estimate_competition"
    /\ \E i \in 1..Len(result) :
           /\ result[i].slots_left > 1
           /\ result[i].estimated_max_bid
                  = HardCap(result[i].budget_left, result[i].slots_left)
           /\ result[i].estimated_max_bid > BASE_PRICE

\* ---------------------------------------------------------------------
\* Properties of _compute_budget_allocation (specification EngineSpec)
\* ---------------------------------------------------------------------
AllocationReturned == call = "compute_budget_allocation" /\ pc = "returned"

\* budget_remaining covers the base price of every slot left
AllocationCovered ==
    slots_left >= 1 /\ budget_remaining >= slots_left * BASE_PRICE

\* sum(a["max_budget"] for a in budget_allocation if a["type"] == type)
total_of_type(plan, type) ==
    SumOver({i \in 1..Len(plan) : plan[i].type = type},
            [i \in 1..Len(plan) |-> plan[i].max_budget])

\* the reserve of the summary line: bt_remaining - total_priority - total_value
displayed_reserve(plan, bt_remaining) ==
    bt_remaining - total_of_type(plan, "Priority") - total_of_type(plan, "Value")

\* number of urgent roles of the roster
UrgentRoleCount(squad) ==
    LET needs == analyze_squad_needs(squad)
    IN  Cardinality(needs.role_needs \ {"need_bowlers"})
            + (IF needs.bowlers_needed > 0 THEN 1 ELSE 0)

\* the plan has slots_left entries, min(urgent roles, slots_left) priority
\* entries first and filler entries after them, and no priority entry above
\* the hard affordability cap
PlanShape ==
    LET n_priority == Min(UrgentRoleCount(my_squad), slots_left)
    IN  /\ Len(result) = slots_left
        /\ \A i \in 1..Len(result) :
              /\ result[i].slot = i
              /\ result[i].type = (IF i <= n_priority THEN "Priority" ELSE "Value")
              /\ i <= n_priority =>
                     result[i].max_budget
                         <= recommend_hard_max(budget_remaining, slots_left)

\* C27: for slots_left >= 1 and budget_remaining >= slots_left * base_price
\* the plan has exactly slots_left entries (the priority entries first, then
\* the fillers), each priority entry's max_budget is at most the hard
\* affordability cap, and the max_budget values sum to at most
\* budget_remaining, so the displayed reserve is never negative.
C27_AllocationWithinBudget ==
    (AllocationReturned /\ AllocationCovered) =>
        /\ PlanShape
        /\ displayed_reserve(result, budget_remaining) >= 0

\* what does hold of the plan: its shape and the cap on priority entries
AllocationShapeHolds == (AllocationReturned /\ AllocationCovered) => PlanShape

\* a plan with a priority entry and a filler whose budgets add up to more
\* than the team has
NegativeReserveSeen ==
    /\ AllocationReturned
    /\ AllocationCovered
    /\ \E i, j \in 1..Len(result) :
           result[i].type = "Priority" /\ result[j].type = "Value"
    /\ displayed_reserve(result, budget_remaining) < 0

\* a plan of priority entries only keeps within the budget
PriorityOnlyPlanSeen ==
    /\ AllocationReturned
    /\ AllocationCovered
    /\ slots_left >= 2
    /\ \A i \in 1..Len(result) : result[i].type = "Priority"
    /\ displayed_reserve(result, budget_remaining) >= 0

\* ---------------------------------------------------------------------
\* Undo Last Sale after Confirm Sale (specification Spec)
\* ---------------------------------------------------------------------
\* the log Undo Last Sale leaves when pressed on log
log_after_undo(log) == DictDel(log, log[Len(log)].pid)

\* the two logs show the same auction: entries and their order, every
\* team's remaining budget and slots, and the unsold pool
SameAuction(log_a, log_b) ==
    /\ log_a = log_b
    /\ \A t \in Range(TEAMS) :
          /\ get_team_remaining(log_a, t) = get_team_remaining(log_b, t)
          /\ get_auction_count(log_a, t) = get_auction_count(log_b, t)
    /\ get_unsold_players(player_data, log_a)
           = get_unsold_players(player_data, log_b)

\* C29: Undo Last Sale removes exactly the most recently recorded sale: a
\* Confirm Sale immediately followed by Undo Last Sale restores the auction
\* log (entries and their order), every team's remaining budget and slot
\* count and the unsold pool to what they were before the sale; Undo is
\* only enabled when the log is non-empty.
C29_UndoRestoresSale ==
    /\ [](ENABLED UndoLastSale => auction_log # <<>>)
    /\ [][/\ ConfirmSale =>
              /\ Len(auction_log') = Len(auction_log) + 1
              /\ SameAuction(log_after_undo(auction_log'), auction_log)
          /\ UndoLastSale =>
              /\ Len(auction_log) > 0
              /\ auction_log' = SubSeq(auction_log, 1, Len(auction_log) - 1)]_vars

\* two sales to different teams on record, the later one above the base
\* price, and undoing it gives the log of the first sale alone
C29_Witness ==
    /\ Len(auction_log) = 2
    /\ auction_log[1].team # auction_log[2].team
    /\ auction_log[2].price > BASE_PRICE
    /\ ENABLED UndoLastSale
    /\ log_after_undo(auction_log) = <<auction_log[1]>>

\* ---------------------------------------------------------------------
\* Specification AuctionSpec: the whole auction, from the empty log to the
\* last of the 36 sales, with Undo Last Sale and Reset
\* ---------------------------------------------------------------------
\* TOTAL_AUCTION_PLAYERS = len(AUCTION_PLAYERS): the players without a tag
TOTAL_AUCTION_PLAYERS ==
    Cardinality({i \in 1..Len(PLAYERS) : PLAYERS[i].tag = "None"})

\* the team whose turn the k-th sale is: the teams take turns in the order
\* of TEAMS
TurnOf(k) == TEAMS[((k - 1) % Len(TEAMS)) + 1]

\* the buyer of the next sale in turn: the team whose turn it is or, when
\* that team is full, the first eligible team of TEAMS
ScheduledBuyer(log) ==
    IF TurnOf(Len(log) + 1) \in eligible_teams(log) THEN TurnOf(Len(log) + 1)
    ELSE TEAMS[CHOOSE i \in 1..Len(TEAMS) :
                  /\ TEAMS[i] \in eligible_teams(log)
                  /\ \A j \in 1..(i - 1) : TEAMS[j] \notin eligible_teams(log)]

\* the recorded sales that were out of turn or above the base price
Departures(log) ==
    {k \in 1..Len(log) : log[k].team # TurnOf(k) \/ log[k].price # BASE_PRICE}

\* the modelled user departs from selling in turn at base price this often
\* of their own accord
MaxDepartures == 2

\* the team the modelled user lets buy out of turn
OutOfTurnTeams == {"Abhijeet"}

\* the form of tab1 lets sold_price be confirmed for sold_to: an unsold
\* player is on offer, the team is in the "Sold to Team" box and the price
\* is one the number input accepts
CanConfirmSale(sold_to, sold_price) ==
    /\ call = "none"
    /\ get_unsold_players(player_data, auction_log) # {}
    /\ sold_to \in eligible_teams(auction_log)
    /\ sold_price \in SoldPriceRange(max_affordable(auction_log, sold_to))

\* tab1 "Confirm Sale" of the select box's first player to sold_to at
\* sold_price
ConfirmSaleAt(sold_to, sold_price) ==
    /\ CanConfirmSale(sold_to, sold_price)
    /\ \E selected_id \in {p.id : p \in get_unsold_players(player_data, auction_log)} :
          /\ \A p \in get_unsold_players(player_data, auction_log) :
                selected_id <= p.id
          /\ auction_log' = DictSet(auction_log, selected_id, sold_to, sold_price)
    /\ UNCHANGED <<player_data, engine_vars>>

\* a sale in turn at base price, or one of the few departures
AuctionSale ==
    /\ eligible_teams(auction_log) # {}
    /\ \E in_turn \in {ScheduledBuyer(auction_log)} :
       \E sold_to \in OutOfTurnTeams \cup {in_turn} :
       \E sold_price \in SoldPriceInputs(max_affordable(auction_log, sold_to)) :
          /\ \/ sold_to = in_turn /\ sold_price = BASE_PRICE
             \/ Cardinality(Departures(auction_log)) < MaxDepartures
          /\ ConfirmSaleAt(sold_to, sold_price)

AuctionNext == AuctionSale \/ UndoLastSale \/ ResetAuction

AuctionSpec == Init /\ [][AuctionNext]_vars

\* the auction players not yet sold
UnsoldNow == get_unsold_players(player_data, auction_log)

\* the number of unsold auction players equals the slots remaining over all
\* teams, and no team is over its slots
SlotsMatchUnsold ==
    /\ Cardinality(UnsoldNow)
           = SumOver(Range(TEAMS),
                     [t \in Range(TEAMS) |-> slots_remaining(auction_log, t)])
    /\ \A t \in Range(TEAMS) : slots_remaining(auction_log, t) >= 0

\* some team is eligible and can afford the base price
SomeTeamCanBuy ==
    \E t \in eligible_teams(auction_log) :
        max_affordable(auction_log, t) >= BASE_PRICE

\* a sale can be confirmed: the next one in turn at the base price
SaleEnabled ==
    /\ eligible_teams(auction_log) # {}
    /\ CanConfirmSale(ScheduledBuyer(auction_log), BASE_PRICE)

\* all 36 auction players sold and every team holding 11
AuctionComplete ==
    /\ UnsoldNow = {}
    /\ Len(auction_log) = TOTAL_AUCTION_PLAYERS
    /\ \A t \in Range(TEAMS) :
          full_squad_len(player_data, auction_log, t) = SQUAD_SIZE

\* C28: the auction never deadlocks: in every state reachable by Confirm
\* Sale, Undo Last Sale and Reset the number of unsold auction players equals
\* the sum over teams of slots remaining, so whenever an unsold player exists
\* some team is eligible and can afford the base price and a sale is
\* enabled; every sale records one more player, and when no player is left
\* unsold all 36 are sold and each team holds exactly 11, so from every
\* reachable state a sequence of sales leads there.
C28_AuctionNeverDeadlocks ==
    /\ [](/\ SlotsMatchUnsold
          /\ UnsoldNow # {} => (SomeTeamCanBuy /\ SaleEnabled)
          /\ UnsoldNow = {} => AuctionComplete)
    /\ [][AuctionSale =>
             /\ Len(auction_log') = Len(auction_log) + 1
             /\ Cardinality(get_unsold_players(player_data, auction_log'))
                    = Cardinality(UnsoldNow) - 1]_vars

\* the auction completed after the own team bought out of turn at its cap
C28_Witness ==
    /\ AuctionComplete
    /\ Cardinality(Departures(auction_log)) = MaxDepartures
    /\ \E k \in 1..Len(auction_log) :
           /\ auction_log[k].team = "Abhijeet"
           /\ auction_log[k].price > BASE_PRICE

\* a full team while players are still unsold
FullTeamMidAuctionSeen ==
    /\ UnsoldNow # {}
    /\ \E t \in Range(TEAMS) : slots_remaining(auction_log, t) = 0
    /\ \E t \in Range(TEAMS) : slots_remaining(auction_log, t) >= 2

\* a team that can afford no more than the base price with slots to fill
OnlyBaseAffordableSeen ==
    \E t \in eligible_teams(auction_log) :
        /\ slots_remaining(auction_log, t) >= 2
        /\ max_affordable(auction_log, t) = BASE_PRICE

\* ---------------------------------------------------------------------
\* best_possible_ovr against realistic_ovr (specification EngineSpec)
\* ---------------------------------------------------------------------
\* C30: for every input to build_best_team_snapshot, best_possible_ovr >=
\* realistic_ovr: the roster total with the optimizer's picks is never below
\* the roster total with the competition-adjusted realistic picks, also
\* when the optimizer is infeasible or the bowling quota forces lower-rated
\* picks.
C30_BestAtLeastRealistic ==
    SnapshotReturned => result.best_possible_ovr >= result.realistic_ovr

\* what does hold: neither total is below the current one, and without
\* realistic picks the realistic total is the current one
TotalsAtLeastCurrent ==
    SnapshotReturned =>
        /\ result.best_possible_ovr >= result.current_ovr
        /\ result.realistic_ovr >= result.current_ovr
        /\ result.realistic_picks = <<>> =>
               result.realistic_ovr = result.current_ovr

\* the optimizer returned nothing and the realistic loop picked a player
RealisticAboveBestSeen ==
    /\ SnapshotReturned
    /\ solver = "optimal"
    /\ my_squad # {}
    /\ result.optimal_picks = {}
    /\ result.realistic_picks # <<>>
    /\ result.best_possible_ovr = result.current_ovr
    /\ result.realistic_ovr > result.best_possible_ovr

\* both lists non-empty and different, the optimizer's total the higher
BestAboveRealisticSeen ==
    /\ SnapshotReturned
    /\ result.optimal_picks # {}
    /\ result.realistic_picks # <<>>
    /\ result.best_possible_ovr > result.realistic_ovr

====
